---- MODULE Spec2Model ----
(***************************************************************************)
(* netroub: trial orchestration and concurrency control.                   *)
(*                                                                         *)
(* The module models the batch executor (pkg/executor/executor.go), the    *)
(* scenario runner (pkg/executor/runner: RunWithResult and its helpers),   *)
(* the network controller (pkg/network/controller.go), the subnet          *)
(* allocator (pkg/network/emulation.go) and the scenario loader            *)
(* (pkg/model), which unmarshals into the process-wide variables           *)
(* model.Scenar and model.Devices.                                         *)
(*                                                                         *)
(* Strings whose characters the code inspects (paths, RunIDs, lab names)   *)
(* are sequences of one-character strings.                                 *)
(***************************************************************************)
EXTENDS Integers, Sequences, FiniteSets, TLC

(***************************************************************************)
(* Bounds of the model.                                                    *)
(***************************************************************************)
MaxParallel == 2
MaxEntries == 2
MaxRepeat == 2
MaxTasks == 3
MaxTrials == 2
MaxSolo == 2
LateRun == 4096

(***************************************************************************)
(* Small helpers.                                                          *)
(***************************************************************************)
Range(s) == {s[i] : i \in 1..Len(s)}

Max(a, b) == IF a >= b THEN a ELSE b

RECURSIVE Pow2(_)
Pow2(n) == IF n = 0 THEN 1 ELSE 2 * Pow2(n - 1)

RECURSIVE FlattenSeq(_)
FlattenSeq(ss) == IF ss = <<>> THEN <<>> ELSE Head(ss) \o FlattenSeq(Tail(ss))

DigitChars == <<"0", "1", "2", "3", "4", "5", "6", "7", "8", "9">>

IsDigit(c) == c \in Range(DigitChars)

DigitVal(c) == CHOOSE d \in 0..9 : DigitChars[d + 1] = c

(* decimal digits of a natural number, most significant first *)
RECURSIVE Digits(_)
Digits(n) == IF n < 10 THEN <<DigitChars[n + 1]>>
             ELSE Digits(n \div 10) \o <<DigitChars[(n % 10) + 1]>>

(* fmt "%03d" for a non-negative integer *)
Pad3(n) == LET d == Digits(n)
           IN IF Len(d) >= 3 THEN d
              ELSE [i \in 1..(3 - Len(d)) |-> "0"] \o d

(* index of the last occurrence of character c in s, 0 when absent *)
LastIndex(s, c) == IF \E i \in 1..Len(s) : s[i] = c
                   THEN CHOOSE i \in 1..Len(s) :
                          s[i] = c /\ \A j \in (i + 1)..Len(s) : s[j] # c
                   ELSE 0

(***************************************************************************)
(* Task generation: GenerateTasks, extractScenarioName,                    *)
(* GenerateTasksFromPlan.                                                  *)
(***************************************************************************)
extractScenarioName(path) ==
    LET lastSlash == LastIndex(path, "/")
        name == SubSeq(path, lastSlash + 1, Len(path))
        dot == LastIndex(name, ".")
    IN IF dot > 0 THEN SubSeq(name, 1, dot - 1) ELSE name

(* a GenerateTasks whose sequence starts at 000 *)
GenerateTasksFromZero(scenarioPath, count, yaml) ==
    [i \in 1..count |->
        [ScenarioPath |-> scenarioPath,
         RunID |-> extractScenarioName(scenarioPath) \o <<"_">> \o Pad3(i - 1),
         YAML |-> yaml]]

GenerateTasks(scenarioPath, count, yaml) ==
    [i \in 1..count |->
        [ScenarioPath |-> scenarioPath,
         RunID |-> extractScenarioName(scenarioPath) \o <<"_">> \o Pad3(i),
         YAML |-> yaml]]

GenerateTasksFromPlan(p) ==
    FlattenSeq([k \in 1..Len(p) |->
                  GenerateTasks(p[k].Pattern, p[k].Repeat, p[k].YAML)])

(* a pool one worker larger than configured *)
NewExecutorOneMore(par) == IF par < 1 THEN 2 ELSE par + 1

(* NewExecutor: a pool size below 1 becomes 1 *)
NewExecutor(par) == IF par < 1 THEN 1 ELSE par

(***************************************************************************)
(* Subnet allocation (pkg/network/emulation.go).                           *)
(*                                                                         *)
(* The code computes IPv4 addresses as uint32.  Every address the          *)
(* allocator handles is a multiple of 4 (or such a multiple plus 3), so    *)
(* the model counts in units of 4 addresses, modulo 2^30: the same         *)
(* arithmetic as the code's modulo 2^32.                                   *)
(***************************************************************************)
(* fmt.Sscanf(numStr, "%d", &num): leading spaces, an optional sign, then  *)
(* decimal digits up to the first other character; num stays 0 when no     *)
(* digit is read                                                           *)
RECURSIVE SkipSpaces(_)
SkipSpaces(s) == IF s # <<>> /\ Head(s) = " " THEN SkipSpaces(Tail(s)) ELSE s

RECURSIVE ScanDigits(_, _)
ScanDigits(s, acc) ==
    IF s # <<>> /\ IsDigit(Head(s))
    THEN ScanDigits(Tail(s), 10 * acc + DigitVal(Head(s)))
    ELSE acc

SscanfD(str) ==
    LET s0 == SkipSpaces(str)
        neg == s0 # <<>> /\ Head(s0) = "-"
        s1 == IF s0 # <<>> /\ Head(s0) \in {"-", "+"} THEN Tail(s0) ELSE s0
        n == ScanDigits(s1, 0)
    IN IF neg THEN 0 - n ELSE n

extractLabIndex(labName) ==
    LET idx == LastIndex(labName, "_")
    IN IF idx >= 1 /\ idx < Len(labName)
       THEN SscanfD(SubSeq(labName, idx + 1, Len(labName)))
       ELSE 0

(* a scan that stops at /24 *)
RECURSIVE ScanPrefixTo24(_, _)
ScanPrefixTo24(prefix, required) ==
    IF prefix < 24 THEN <<24, Pow2(8) - 2>>
    ELSE IF Pow2(32 - prefix) - 2 >= required
         THEN <<prefix, Pow2(32 - prefix) - 2>>
         ELSE ScanPrefixTo24(prefix - 1, required)

(* minimum prefix whose usable addresses hold deviceCount + 1 *)
RECURSIVE ScanPrefix(_, _)
ScanPrefix(prefix, required) ==
    IF prefix < 16 THEN <<16, Pow2(16) - 2>>
    ELSE IF Pow2(32 - prefix) - 2 >= required
         THEN <<prefix, Pow2(32 - prefix) - 2>>
         ELSE ScanPrefix(prefix - 1, required)

(* a size for the devices alone, without the gateway address *)
calculateSubnetSizeNoGateway(deviceCount) == ScanPrefix(30, deviceCount)

calculateSubnetSize(deviceCount) == ScanPrefix(30, deviceCount + 1)

BaseQ == 721682432     \* 0xAC100000 / 4: 172.16.0.0
MaxQ == 721944575      \* 0xAC1FFFFF \div 4: 172.31.255.255
ModQ == 1073741824     \* 2^32 / 4

generateSubnet(labName, deviceCount) ==
    LET prefix == calculateSubnetSize(deviceCount)[1]
        labIndex == extractLabIndex(labName)
        sizeQ == Pow2(30 - prefix)
        \* uint32(labIndex) * subnetSize, modulo 2^32
        offsetQ == (labIndex % Pow2(prefix)) * sizeQ
        subnetQ == (BaseQ + offsetQ) % ModQ
        endQ == (subnetQ + sizeQ - 1) % ModQ
    IN IF endQ > MaxQ
       THEN [err |-> "exceeds range", a |-> 0, b |-> 0, c |-> 0, d |-> 0,
             prefix |-> prefix]
       ELSE [err |-> "nil",
             a |-> subnetQ \div Pow2(22),
             b |-> (subnetQ \div Pow2(14)) % 256,
             c |-> (subnetQ \div Pow2(6)) % 256,
             d |-> (subnetQ % 64) * 4,
             prefix |-> prefix]

(* the address range a dotted a.b.c.d/prefix subnet denotes, in units of 4 *)
SubnetRange(sn) ==
    LET ipQ == sn.a * Pow2(22) + sn.b * Pow2(14) + sn.c * Pow2(6) + sn.d \div 4
        sizeQ == Pow2(30 - sn.prefix)
        lo == ipQ - (ipQ % sizeQ)
    IN [lo |-> lo, hi |-> lo + sizeQ - 1]

RangesOverlap(r1, r2) == r1.lo <= r2.hi /\ r2.lo <= r1.hi

HexChars == <<"0", "1", "2", "3", "4", "5", "6", "7", "8", "9",
              "a", "b", "c", "d", "e", "f">>

(* fmt "%x" of an integer: lowercase hexadecimal, a minus sign when negative *)
RECURSIVE HexDigits(_)
HexDigits(n) == IF n < 16 THEN <<HexChars[n + 1]>>
                ELSE HexDigits(n \div 16) \o <<HexChars[(n % 16) + 1]>>

FormatHex(n) == IF n < 0 THEN <<"-">> \o HexDigits(0 - n) ELSE HexDigits(n)

generateIPv6Subnet(labName) ==
    LET labIndex == extractLabIndex(labName)
    IN IF labIndex > 65535
       THEN [err |-> "exceeds maximum", group4 |-> <<>>]
       ELSE [err |-> "nil", group4 |-> FormatHex(labIndex)]

(***************************************************************************)
(* Scenario files on disk.  A path is a character sequence; the catalogue  *)
(* gives, for every path, the keys its document holds.  A key the document *)
(* does not hold is absent from has, which is not the same as a key held   *)
(* with an empty value.                                                    *)
(***************************************************************************)
PathA == <<"s", "/", "a", ".", "j", "s", "o", "n">>
PathB == <<"s", "/", "b", ".", "j", "s", "o", "n">>
PathN == <<"s", "/", "n", ".", "j", "s", "o", "n">>
PathY == <<"s", "/", "y", ".", "y", "a", "m", "l">>

ScenarioPaths == {PathA, PathB, PathN, PathY}

(* further scenario files, s/{c}.json: e (config, copy and collect        *)
(* events), u (an event of an unknown kind), i (a begin time that does not *)
(* parse), z (no event), h (a host that is no device), g (such a host, no  *)
(* topology), m (not JSON), k (a topology, no device data, no host and no  *)
(* event)                                                                  *)
ExtraPath(c) == <<"s", "/", c, ".", "j", "s", "o", "n">>

ExtraPaths == {ExtraPath(c) : c \in {"e", "u", "i", "z", "h", "g", "m", "k"}}

(* IsYAMLExtension: the last extension is .yaml or .yml *)
IsYAMLExtension(path) ==
    LET dot == LastIndex(path, ".")
        ext == IF dot = 0 THEN <<>> ELSE SubSeq(path, dot, Len(path))
    IN ext \in {<<".", "y", "a", "m", "l">>, <<".", "y", "m", "l">>}

ScenarioEntries ==
    {[Pattern |-> f, Repeat |-> r, YAML |-> IsYAMLExtension(f)] :
        f \in ScenarioPaths, r \in 1..MaxRepeat}

RECURSIVE SumRepeat(_)
SumRepeat(p) == IF p = <<>> THEN 0 ELSE Head(p).Repeat + SumRepeat(Tail(p))

(* the plans of the model: 1..MaxEntries entries, at most MaxTasks runs *)
Plans ==
    {p \in UNION {[1..n -> ScenarioEntries] : n \in 1..MaxEntries} :
        SumRepeat(p) <= MaxTasks}

(* the plans run with the scenario runner: at most MaxTrials trials *)
TrialPlans == {p \in Plans : SumRepeat(p) <= MaxTrials}

(* events of the documents; BeginTime is compared as a string by Less *)
EvA1 == [id |-> "a1", Type |-> "pumba", BeginTime |-> "1s"]
EvA2 == [id |-> "a2", Type |-> "shell", BeginTime |-> "0s"]
EvB1 == [id |-> "b1", Type |-> "pumba", BeginTime |-> "0s"]
EvN1 == [id |-> "n1", Type |-> "shell", BeginTime |-> "0s"]

ZeroEvent == [id |-> "", Type |-> "", BeginTime |-> ""]

(* model.Event{BeginTime: "0s", Type: model.EventTypeDummy} *)
DummyEvent == [id |-> "dummy", Type |-> "dummy", BeginTime |-> "0s"]

NoTopo == <<>>

(* the events of the further scenario files *)
ExtraEvents(c) ==
    IF c = "e" THEN <<[id |-> "e1", Type |-> "config", BeginTime |-> "0s"],
                      [id |-> "e2", Type |-> "copy", BeginTime |-> "0s"],
                      [id |-> "e3", Type |-> "collect", BeginTime |-> "1s"]>>
    ELSE IF c = "u" THEN <<[id |-> "u1", Type |-> "shell", BeginTime |-> "0s"],
                           [id |-> "u2", Type |-> "bogus", BeginTime |-> "0s"]>>
    ELSE IF c = "i" THEN <<[id |-> "i1", Type |-> "shell", BeginTime |-> "x"]>>
    ELSE IF c \in {"h", "g"}
         THEN <<[id |-> c, Type |-> "shell", BeginTime |-> "0s"]>>
    ELSE <<>>

(* the scenario document at a path: ok is FALSE when the file is not JSON, *)
(* has is the set of keys the document holds                               *)
ScenarioDoc(path) ==
    IF path \in ExtraPaths THEN
        LET c == path[3]
        IN [ok |-> c # "m",
            has |-> {"scenarioName", "duration"}
                    \cup (IF c \in {"z", "k"} THEN {} ELSE {"event"})
                    \cup (IF c \in {"h", "k"} THEN {"topo"} ELSE {})
                    \cup (IF c \in {"h", "g"} THEN {"data", "hosts"} ELSE {}),
            scenarioName |-> c,
            topo |-> IF c = "h" THEN <<"th", "topo.yaml">>
                     ELSE IF c = "k" THEN <<"tk", "topo.yaml">> ELSE NoTopo,
            data |-> IF c \in {"h", "g"} THEN "da" ELSE "",
            duration |-> "10s",
            hosts |-> IF c \in {"h", "g"} THEN <<"r9">> ELSE <<>>,
            event |-> ExtraEvents(c)]
    ELSE IF path = PathA THEN
        [ok |-> TRUE, has |-> {"scenarioName", "topo", "data", "duration", "hosts", "event"},
         scenarioName |-> "A", topo |-> <<"ta", "topo.yaml">>, data |-> "da",
         duration |-> "10s", hosts |-> <<"r1">>, event |-> <<EvA1, EvA2>>]
    ELSE IF path = PathB THEN
        [ok |-> TRUE, has |-> {"scenarioName", "topo", "data", "duration", "hosts", "event"},
         scenarioName |-> "B", topo |-> <<"tb", "topo.yaml">>, data |-> "db",
         duration |-> "20s", hosts |-> <<"r2", "r1">>, event |-> <<EvB1>>]
    ELSE
        \* a scenario without topology, data file and host list
        [ok |-> TRUE, has |-> {"scenarioName", "duration", "event"},
         scenarioName |-> "N", topo |-> NoTopo, data |-> "",
         duration |-> "30s", hosts |-> <<>>, event |-> <<EvN1>>]

(* the device data document a scenario's data key names *)
DataDoc(data) ==
    IF data = "da" THEN [name |-> "la", nodes |-> <<"r1">>]
    ELSE [name |-> "lb", nodes |-> <<"r2", "r1">>]

(***************************************************************************)
(* Go slices.  A slice value is a header (arr, len) on a backing array of  *)
(* the heap; copying a struct copies the headers, not the arrays.          *)
(***************************************************************************)
NilSlice == [arr |-> 0, len |-> 0]

Cap(h, sl) == IF sl.arr = 0 THEN 0 ELSE Len(h[sl.arr])

Elems(h, sl) == IF sl.arr = 0 THEN <<>> ELSE SubSeq(h[sl.arr], 1, sl.len)

(* capacity after growing a full backing array of capacity c *)
GrowCap(c) == IF c = 0 THEN 1 ELSE 2 * c

RECURSIVE GrowTo(_, _)
GrowTo(c, n) == IF c >= n THEN c ELSE GrowTo(GrowCap(c), n)

(* json.Unmarshal of a JSON array into an existing slice: element i is     *)
(* decoded into the backing array while i < cap, and a larger array is     *)
(* allocated only when the capacity is exhausted; an empty JSON array      *)
(* yields a fresh empty slice                                              *)
UnmarshalSlice(h, sl, vals, zero) ==
    LET n == Len(vals)
        c == Cap(h, sl)
        h1 == IF sl.arr = 0 THEN h
              ELSE [h EXCEPT ![sl.arr] =
                      [i \in 1..c |-> IF i <= n THEN vals[i] ELSE @[i]]]
    IN IF n = 0 THEN [heap |-> h, slice |-> NilSlice]
       ELSE IF n <= c THEN [heap |-> h1, slice |-> [arr |-> sl.arr, len |-> n]]
       ELSE [heap |-> Append(h1, [i \in 1..GrowTo(c, n) |->
                                     IF i <= n THEN vals[i] ELSE zero]),
             slice |-> [arr |-> Len(h1) + 1, len |-> n]]

(* append(sl, v): in place when the capacity allows, else on a new array *)
AppendSlice(h, sl, v, zero) ==
    IF sl.len < Cap(h, sl)
    THEN [heap |-> [h EXCEPT ![sl.arr][sl.len + 1] = v],
          slice |-> [arr |-> sl.arr, len |-> sl.len + 1]]
    ELSE [heap |-> Append(h, [i \in 1..GrowCap(Cap(h, sl)) |->
                                 IF i <= sl.len THEN h[sl.arr][i]
                                 ELSE IF i = sl.len + 1 THEN v ELSE zero]),
          slice |-> [arr |-> Len(h) + 1, len |-> sl.len + 1]]

(* Less of sort.Sort(Scenar): string order of BeginTime *)
BeginTimes == <<"", "0s", "1s", "x">>

(* time.ParseDuration succeeds on the string *)
ParsesAsDuration(str) == str \in {"0s", "1s", "10s", "20s", "30s"}

StrRank(str) == CHOOSE k \in 1..Len(BeginTimes) : BeginTimes[k] = str

Less(e1, e2) == StrRank(e1.BeginTime) < StrRank(e2.BeginTime)

(* sort.Sort on fewer than 12 elements is an insertion sort *)
RECURSIVE InsertSorted(_, _)
InsertSorted(sorted, e) ==
    IF sorted = <<>> THEN <<e>>
    ELSE IF Less(e, sorted[Len(sorted)])
         THEN InsertSorted(SubSeq(sorted, 1, Len(sorted) - 1), e)
                 \o <<sorted[Len(sorted)]>>
         ELSE Append(sorted, e)

RECURSIVE SortEvents(_)
SortEvents(evs) ==
    IF evs = <<>> THEN <<>>
    ELSE InsertSorted(SortEvents(SubSeq(evs, 1, Len(evs) - 1)), evs[Len(evs)])

(***************************************************************************)
(* State.                                                                  *)
(***************************************************************************)
VARIABLES
    calc,            \* the call of a function under test: inputs and results
    planFile,        \* batch: what the plan file on disk holds
    batchErr,        \* batch: the error batchScenario has returned, or "nil"
    summary,         \* what LogSummary and PrintSummary have written
    plan,            \* the expanded plan the tasks were generated from
    cfgParallel,     \* the pool size handed to NewExecutor
    tasks,           \* tasks []*Task
    parallel,        \* Executor.parallel
    phase,           \* ExecuteWithProgress: "new", "running", "returned";
                     \* "done" once the command has returned
                     \* "panicked" once a goroutine has panicked
    taskChan,        \* taskChan: the indices still queued (closed after the fill)
    results,         \* results []*Result
    pc,              \* position of each worker goroutine
    cur,             \* the index i the worker took from taskChan
    rr,              \* the TaskRunnerResult of the runner call in progress
    runCount,        \* number of runner invocations per task index
    scenarioLoadMu,  \* holder of scenarioLoadMu, 0 when free
    Scenar,          \* model.Scenar
    Devices,         \* model.Devices
    heap,            \* the backing arrays of all slices
    networkOpMu,     \* holder of networkOpMu, 0 when free
    inFlight,        \* workers whose external deploy/destroy call is running
    logrusOut,       \* the output of the logrus standard logger
    tr,              \* locals of each worker's RunWithResult call
    defers,          \* deferred calls of each worker's RunWithResult call
    gh               \* per trial: what has happened so far (history)

inputVars == <<calc, planFile, batchErr, summary, plan, cfgParallel, tasks,
               parallel>>

execVars == <<phase, taskChan, results, pc, cur, rr, runCount>>

loadVars == <<scenarioLoadMu, Scenar, Devices, heap>>

netVars == <<networkOpMu, inFlight>>

trialVars == <<logrusOut, tr, defers, gh>>

runnerVars == <<loadVars, netVars, trialVars>>

vars == <<inputVars, execVars, runnerVars>>

Workers == 1..MaxParallel

NoResult == [filled |-> FALSE, Task |-> <<>>, Error |-> "nil", LogDir |-> <<>>]

NoRR == [LogDir |-> <<>>, Error |-> "nil"]

ZeroScenario == [ScenarioName |-> "", Topo |-> NoTopo, Data |-> "",
                 Duration |-> "", Hosts |-> NilSlice, Event |-> NilSlice]

ZeroData == [Name |-> "", Nodes |-> NilSlice]

NoTrial == [scenario |-> ZeroScenario, devices |-> ZeroData, logDir |-> <<>>,
            hostIdx |-> 0, ipv4 |-> <<>>, ipv6 |-> <<>>,
            pending |-> {}, done |-> <<>>, eventsErr |-> "nil",
            destroyErr |-> FALSE]

NoHistory == [deployed |-> FALSE, destroys |-> 0, collects |-> 0,
              wrote |-> {}, read |-> {}, tcpdumps |-> 0, ran |-> {},
              failed |-> {}]

(* no plan file: the tasks are handed to the executor directly *)
NoPlanFile == [ok |-> TRUE, Parallel |-> 0, Scenarios |-> <<>>]

(* nothing has been written yet *)
NoSummary == [total |-> 0, succeeded |-> 0, failed |-> 0, log |-> <<>>,
              stdout |-> <<>>]

(* no function is under test *)
NoCalc == [labs |-> <<>>, n |-> 0, out |-> <<>>]

InitExecutor(p, par) ==
    /\ calc = NoCalc
    /\ planFile = NoPlanFile
    /\ batchErr = "nil"
    /\ summary = NoSummary
    /\ plan = p
    /\ cfgParallel = par
    /\ tasks = GenerateTasksFromPlan(p)
    /\ parallel = NewExecutor(par)
    /\ phase = "new"
    /\ taskChan = <<>>
    /\ results = <<>>
    /\ pc = [w \in Workers |-> "off"]
    /\ cur = [w \in Workers |-> 0]
    /\ rr = [w \in Workers |-> NoRR]
    /\ runCount = [i \in 1..Len(GenerateTasksFromPlan(p)) |-> 0]

InitRunner ==
    /\ scenarioLoadMu = 0
    /\ Scenar = ZeroScenario
    /\ Devices = ZeroData
    /\ heap = <<>>
    /\ networkOpMu = 0
    /\ inFlight = {}
    /\ logrusOut = <<"stdout">>
    /\ tr = [w \in Workers |-> NoTrial]
    /\ defers = [w \in Workers |-> <<>>]
    /\ gh = [w \in Workers |-> NoHistory]

(***************************************************************************)
(* Executor.ExecuteWithProgress.                                           *)
(***************************************************************************)
(* an executor that starts one worker goroutine less *)
ExecuteWithProgressOneWorkerLess ==
    /\ phase = "new"
    /\ phase' = "running"
    /\ results' = [i \in 1..Len(tasks) |-> NoResult]
    /\ taskChan' = [i \in 1..Len(tasks) |-> i]
    /\ pc' = [w \in Workers |-> IF w < parallel THEN "idle" ELSE "off"]
    /\ UNCHANGED <<inputVars, cur, rr, runCount, runnerVars>>

(* results and taskChan are made, the channel is filled and closed, and    *)
(* e.parallel worker goroutines are started                                *)
ExecuteWithProgress ==
    /\ phase = "new"
    /\ phase' = "running"
    /\ results' = [i \in 1..Len(tasks) |-> NoResult]
    /\ taskChan' = [i \in 1..Len(tasks) |-> i]
    /\ pc' = [w \in Workers |-> IF w <= parallel THEN "idle" ELSE "off"]
    /\ UNCHANGED <<inputVars, cur, rr, runCount, runnerVars>>

(* for i := range taskChan: receive the next index and call the runner *)
TakeTask(w) ==
    /\ phase = "running"
    /\ pc[w] = "idle"
    /\ taskChan # <<>>
    /\ cur' = [cur EXCEPT ![w] = Head(taskChan)]
    /\ taskChan' = Tail(taskChan)
    /\ runCount' = [runCount EXCEPT ![Head(taskChan)] = @ + 1]
    /\ rr' = [rr EXCEPT ![w] = NoRR]
    /\ pc' = [pc EXCEPT ![w] = "run"]
    /\ tr' = [tr EXCEPT ![w] = NoTrial]
    /\ defers' = [defers EXCEPT ![w] = <<>>]
    /\ gh' = [gh EXCEPT ![w] = NoHistory]
    /\ UNCHANGED <<inputVars, phase, results, loadVars, netVars, logrusOut>>

(* a worker that also leaves its loop once a task has failed *)
WorkerExitOnFailure(w) ==
    /\ phase = "running"
    /\ pc[w] = "idle"
    /\ \/ taskChan = <<>>
       \/ \E i \in 1..Len(results) :
             results[i].filled /\ results[i].Error # "nil"
    /\ pc' = [pc EXCEPT ![w] = "exit"]
    /\ UNCHANGED <<inputVars, phase, taskChan, results, cur, rr, runCount,
                   runnerVars>>

(* the channel is closed and drained: the range loop ends, wg.Done() *)
WorkerExit(w) ==
    /\ phase = "running"
    /\ pc[w] = "idle"
    /\ taskChan = <<>>
    /\ pc' = [pc EXCEPT ![w] = "exit"]
    /\ UNCHANGED <<inputVars, phase, taskChan, results, cur, rr, runCount,
                   runnerVars>>

(* a worker that appends its result in completion order instead of        *)
(* storing it at the task's index                                          *)
StoreResultInCompletionOrder(w) ==
    /\ phase = "running"
    /\ pc[w] = "ret"
    /\ LET k == CHOOSE j \in 1..Len(results) :
                   /\ ~results[j].filled
                   /\ \A m \in 1..(j - 1) : results[m].filled
       IN results' = [results EXCEPT ![k] =
                         [filled |-> TRUE, Task |-> tasks[cur[w]],
                          Error |-> rr[w].Error, LogDir |-> rr[w].LogDir]]
    /\ pc' = [pc EXCEPT ![w] = "idle"]
    /\ cur' = [cur EXCEPT ![w] = 0]
    /\ rr' = [rr EXCEPT ![w] = NoRR]
    /\ tr' = [tr EXCEPT ![w] = NoTrial]
    /\ gh' = [gh EXCEPT ![w] = NoHistory]
    /\ UNCHANGED <<inputVars, phase, taskChan, runCount, loadVars, netVars,
                   logrusOut, defers>>

(* results[i] = &Result{Task: task, Error: err, LogDir: logDir}; the       *)
(* locals of the runner call are dead from here on                         *)
StoreResult(w) ==
    /\ phase = "running"
    /\ pc[w] = "ret"
    /\ results' = [results EXCEPT ![cur[w]] =
                      [filled |-> TRUE, Task |-> tasks[cur[w]],
                       Error |-> rr[w].Error, LogDir |-> rr[w].LogDir]]
    /\ pc' = [pc EXCEPT ![w] = "idle"]
    /\ cur' = [cur EXCEPT ![w] = 0]
    /\ rr' = [rr EXCEPT ![w] = NoRR]
    /\ tr' = [tr EXCEPT ![w] = NoTrial]
    /\ gh' = [gh EXCEPT ![w] = NoHistory]
    /\ UNCHANGED <<inputVars, phase, taskChan, runCount, loadVars, netVars,
                   logrusOut, defers>>

(* wg.Wait() returns once every worker is done; return results *)
ExecuteReturn ==
    /\ phase = "running"
    /\ \A w \in Workers : pc[w] \in {"off", "exit"}
    /\ phase' = "returned"
    /\ UNCHANGED <<inputVars, taskChan, results, pc, cur, rr, runCount,
                   runnerVars>>

(* a summary that reports no failure *)
SummaryAllSucceeded(rs) ==
    [total |-> Len(rs), succeeded |-> Len(rs), failed |-> 0]

(* Summary: the number of results, of results without and with an error *)
Summary(rs) ==
    [total |-> Len(rs),
     succeeded |-> Cardinality({i \in 1..Len(rs) : rs[i].Error = "nil"}),
     failed |-> Cardinality({i \in 1..Len(rs) : rs[i].Error # "nil"})]

(* the "Failed tasks:" lines of PrintSummary: for each result with an      *)
(* error its RunID and error, and the log line if r.LogDir != ""           *)
PrintSummary(rs) ==
    IF Summary(rs).failed > 0
    THEN FlattenSeq([i \in 1..Len(rs) |->
            IF rs[i].Error = "nil" THEN <<>>
            ELSE <<[RunID |-> rs[i].Task.RunID, Error |-> rs[i].Error]>>
                 \o (IF rs[i].LogDir # <<>>
                     THEN <<[Log |-> rs[i].LogDir \o <<"control.log">>]>>
                     ELSE <<>>)])
    ELSE <<>>

(* the "Failed tasks:" lines of BatchLogger.LogSummary *)
LogSummary(rs) ==
    IF Summary(rs).failed > 0
    THEN FlattenSeq([i \in 1..Len(rs) |->
            IF rs[i].Error = "nil" THEN <<>>
            ELSE <<[RunID |-> rs[i].Task.RunID, Error |-> rs[i].Error]>>
                 \o (IF rs[i].LogDir # <<>>
                     THEN <<[Log |-> rs[i].LogDir \o <<"control.log">>]>>
                     ELSE <<>>)])
    ELSE <<>>

(* batchScenario and repeatScenario after ExecuteWithProgress: the summary *)
(* goes to the batch log and to stdout, and the command returns an error   *)
(* if any task failed                                                      *)
CommandReturn ==
    /\ phase = "returned"
    /\ phase' = "done"
    /\ summary' = [total |-> Summary(results).total,
                   succeeded |-> Summary(results).succeeded,
                   failed |-> Summary(results).failed,
                   log |-> LogSummary(results),
                   stdout |-> PrintSummary(results)]
    /\ batchErr' = (IF Summary(results).failed > 0 THEN "tasks failed"
                    ELSE "nil")
    /\ UNCHANGED <<calc, planFile, plan, cfgParallel, tasks, parallel,
                   taskChan, results, pc, cur, rr, runCount, runnerVars>>

(* a TaskRunner of the tests: Run returns nil or an error *)
MockRun(w) ==
    /\ phase = "running"
    /\ pc[w] = "run"
    /\ \E err \in {"nil", "error"} :
          rr' = [rr EXCEPT ![w] = [LogDir |-> <<>>, Error |-> err]]
    /\ pc' = [pc EXCEPT ![w] = "ret"]
    /\ UNCHANGED <<inputVars, phase, taskChan, results, cur, runCount,
                   runnerVars>>

(***************************************************************************)
(* ScenarioRunner.RunWithResult, one action per step between two accesses  *)
(* to state that other goroutines share.                                   *)
(***************************************************************************)
Task(w) == tasks[cur[w]]

(* labName := task.RunID *)
LabName(w) == Task(w).RunID

(* return TaskRunnerResult{...}: the deferred calls run next, last first *)
ReturnResult(w, logDir, err) ==
    /\ rr' = [rr EXCEPT ![w] = [LogDir |-> logDir, Error |-> err]]
    /\ pc' = [pc EXCEPT ![w] = IF defers[w] = <<>> THEN "ret" ELSE "unwind"]

(* loadScenarioAndDevices: scenarioLoadMu.Lock() *)
LoadLock(w) ==
    /\ phase = "running"
    /\ pc[w] = "run"
    /\ scenarioLoadMu = 0
    /\ scenarioLoadMu' = w
    /\ pc' = [pc EXCEPT ![w] = "loading"]
    /\ UNCHANGED <<inputVars, phase, taskChan, results, cur, rr, runCount,
                   Scenar, Devices, heap, netVars, trialVars>>

(* json.Unmarshal(read, &Scenar); sort.Sort(Scenar): a key the document    *)
(* does not hold leaves the field of the process-wide Scenar as it was     *)
ReadJsonScenar(h, sc, doc) ==
    LET hosts == IF "hosts" \in doc.has
                 THEN UnmarshalSlice(h, sc.Hosts, doc.hosts, "")
                 ELSE [heap |-> h, slice |-> sc.Hosts]
        event == IF "event" \in doc.has
                 THEN UnmarshalSlice(hosts.heap, sc.Event, doc.event, ZeroEvent)
                 ELSE [heap |-> hosts.heap, slice |-> sc.Event]
        sorted == IF event.slice.arr = 0 THEN event.heap
                  ELSE [event.heap EXCEPT ![event.slice.arr] =
                          SortEvents(SubSeq(@, 1, event.slice.len))
                             \o SubSeq(@, event.slice.len + 1, Len(@))]
    IN [heap |-> sorted,
        Scenar |->
          [ScenarioName |-> IF "scenarioName" \in doc.has
                            THEN doc.scenarioName ELSE sc.ScenarioName,
           Topo |-> IF "topo" \in doc.has THEN doc.topo ELSE sc.Topo,
           Data |-> IF "data" \in doc.has THEN doc.data ELSE sc.Data,
           Duration |-> IF "duration" \in doc.has
                        THEN doc.duration ELSE sc.Duration,
           Hosts |-> hosts.slice,
           Event |-> event.slice]]

(* json.Unmarshal(read, &Devices) of the file Scenar.Data names *)
ReadJsonData(h, dv, ddoc) ==
    LET nodes == UnmarshalSlice(h, dv.Nodes, ddoc.nodes, "")
    IN [heap |-> nodes.heap,
        Devices |-> [Name |-> ddoc.name, Nodes |-> nodes.slice]]

(* a load that returns with scenarioLoadMu still locked *)
LoadJsonKeepsLock(w) ==
    LET s1 == ReadJsonScenar(heap, Scenar, ScenarioDoc(Task(w).ScenarioPath))
        d1 == IF s1.Scenar.Data # ""
              THEN ReadJsonData(s1.heap, Devices, DataDoc(s1.Scenar.Data))
              ELSE [heap |-> s1.heap, Devices |-> Devices]
    IN /\ heap' = d1.heap
       /\ Scenar' = s1.Scenar
       /\ Devices' = d1.Devices
       /\ tr' = [tr EXCEPT ![w].scenario = s1.Scenar, ![w].devices = d1.Devices]
       /\ UNCHANGED scenarioLoadMu
       /\ pc' = [pc EXCEPT ![w] = "mkdir"]
       /\ UNCHANGED phase

(* the body of loadScenarioAndDevices for a JSON task, up to the deferred  *)
(* Unlock: the returned values are copies of the two structs               *)
LoadJson(w) ==
    LET s1 == ReadJsonScenar(heap, Scenar, ScenarioDoc(Task(w).ScenarioPath))
        d1 == IF s1.Scenar.Data # ""
              THEN ReadJsonData(s1.heap, Devices, DataDoc(s1.Scenar.Data))
              ELSE [heap |-> s1.heap, Devices |-> Devices]
    IN /\ heap' = d1.heap
       /\ Scenar' = s1.Scenar
       /\ Devices' = d1.Devices
       /\ tr' = [tr EXCEPT ![w].scenario = s1.Scenar, ![w].devices = d1.Devices]
       /\ scenarioLoadMu' = 0
       /\ pc' = [pc EXCEPT ![w] = "mkdir"]
       /\ UNCHANGED phase

(* ReadYaml opens os.Args[2], and loadScenarioAndDevices has set os.Args   *)
(* to a slice of length 2: the index is out of range, the goroutine        *)
(* panics and the process ends                                             *)
LoadYamlPanics(w) ==
    /\ phase' = "panicked"
    /\ scenarioLoadMu' = 0
    /\ UNCHANGED <<heap, Scenar, Devices, tr, pc>>

(* json.Unmarshal finds the file is not JSON before it decodes anything:  *)
(* ReadJsonScenar returns the error, the deferred Unlock runs, and         *)
(* RunWithResult returns TaskRunnerResult{Error: "failed to load           *)
(* scenario"} with no log directory                                        *)
LoadFails(w) ==
    /\ scenarioLoadMu' = 0
    /\ ReturnResult(w, <<>>, "load")
    /\ UNCHANGED <<heap, Scenar, Devices, tr, phase>>

LoadScenarioAndDevices(w) ==
    /\ phase = "running"
    /\ pc[w] = "loading"
    /\ IF Task(w).YAML THEN LoadYamlPanics(w) /\ UNCHANGED rr
       ELSE IF ~ScenarioDoc(Task(w).ScenarioPath).ok THEN LoadFails(w)
       ELSE LoadJson(w) /\ UNCHANGED rr
    /\ UNCHANGED <<inputVars, taskChan, results, cur, runCount, netVars,
                   logrusOut, defers, gh>>

(* scenario.TrialLogDirectoryWithLabName(startTime, labName) *)
TrialLogDirectoryWithLabName(labName) == <<"log", labName>>

(* os.MkdirAll(logDir), os.Create(control.log), logrus.SetOutput, and the  *)
(* two deferred calls that close the file and restore the output           *)
SetupLogging(w) ==
    /\ phase = "running"
    /\ pc[w] = "mkdir"
    /\ LET logDir == TrialLogDirectoryWithLabName(LabName(w))
       IN \E ok \in BOOLEAN :
            IF ok
            THEN /\ tr' = [tr EXCEPT ![w].logDir = logDir]
                 /\ gh' = [gh EXCEPT ![w].wrote =
                             @ \cup {logDir \o <<"control.log">>}]
                 /\ logrusOut' = logDir \o <<"control.log">>
                 /\ defers' = [defers EXCEPT ![w] =
                                 <<"closeLog", "restoreOutput">>]
                 /\ pc' = [pc EXCEPT ![w] = "validate"]
                 /\ UNCHANGED rr
            ELSE /\ ReturnResult(w, logDir, "mkdir")
                 /\ UNCHANGED <<tr, gh, logrusOut, defers>>
    /\ UNCHANGED <<inputVars, phase, taskChan, results, cur, runCount,
                   loadVars, netVars>>

(* validateHosts: every scenario host is the name of a device node *)
validateHosts(hosts, nodes) == \A i \in 1..Len(hosts) : hosts[i] \in Range(nodes)

(* noDeploy := scenario.Topo == "" *)
NoDeploy(w) == tr[w].scenario.Topo = NoTopo

ValidateHosts(w) ==
    /\ phase = "running"
    /\ pc[w] = "validate"
    /\ IF NoDeploy(w) \/ validateHosts(Elems(heap, tr[w].scenario.Hosts),
                                       Elems(heap, tr[w].devices.Nodes))
       THEN /\ pc' = [pc EXCEPT ![w] = "append"]
            /\ UNCHANGED rr
       ELSE ReturnResult(w, tr[w].logDir, "validate")
    /\ UNCHANGED <<inputVars, phase, taskChan, results, cur, runCount,
                   loadVars, netVars, trialVars>>

(* scenario.Event = append(scenario.Event, dummy), then                    *)
(* network.CreateDockerClient, which may fail                              *)
AppendDummy(w) ==
    /\ phase = "running"
    /\ pc[w] = "append"
    /\ LET a == AppendSlice(heap, tr[w].scenario.Event, DummyEvent, ZeroEvent)
       IN /\ heap' = a.heap
          /\ tr' = [tr EXCEPT ![w].scenario.Event = a.slice]
    /\ \E dockerOk \in BOOLEAN :
          IF dockerOk
          THEN /\ pc' = [pc EXCEPT ![w] =
                           IF NoDeploy(w) THEN "events" ELSE "deploy"]
               /\ UNCHANGED rr
          ELSE ReturnResult(w, tr[w].logDir, "docker")
    /\ UNCHANGED <<inputVars, phase, taskChan, results, cur, runCount,
                   scenarioLoadMu, Scenar, Devices, netVars, logrusOut,
                   defers, gh>>

(***************************************************************************)
(* NetworkController.Deploy and Destroy.                                   *)
(***************************************************************************)
(* deviceCount := len(c.Devices.Nodes), 254 when no device is loaded *)
DeviceCount(w) == IF tr[w].devices.Nodes.len = 0 THEN 254
                  ELSE tr[w].devices.Nodes.len

(* a Deploy that goes on to the lock with no subnet *)
AllocationIgnored(w) ==
    /\ pc' = [pc EXCEPT ![w] = "deploy_lock"]
    /\ UNCHANGED <<rr, tr>>

(* Deploy returns "failed to allocate ... subnet" before networkOpMu is    *)
(* locked, and RunWithResult returns "failed to deploy network" before the *)
(* deferred Destroy is registered                                          *)
AllocationFailed(w) ==
    /\ ReturnResult(w, tr[w].logDir, "allocate")
    /\ UNCHANGED tr

(* Deploy, up to the lock: the two subnets are computed, and an            *)
(* allocation error returns before the lock is taken                       *)
DeployAllocate(w) ==
    /\ phase = "running"
    /\ pc[w] = "deploy"
    /\ LET v4 == generateSubnet(LabName(w), DeviceCount(w))
           v6 == generateIPv6Subnet(LabName(w))
       IN IF v4.err # "nil" THEN AllocationFailed(w)
          ELSE IF v6.err # "nil" THEN AllocationFailed(w)
          ELSE
              /\ tr' = [tr EXCEPT ![w].ipv4 = v4, ![w].ipv6 = v6]
              /\ pc' = [pc EXCEPT ![w] = "deploy_lock"]
              /\ UNCHANGED rr
    /\ UNCHANGED <<inputVars, phase, taskChan, results, cur, runCount,
                   loadVars, netVars, logrusOut, defers, gh>>

(* a Lock that does not wait: what Deploy and Destroy would do without     *)
(* networkOpMu                                                             *)
NetworkOpLockNoWait(w) == networkOpMu' = w

(* networkOpMu.Lock(): the caller waits until the mutex is free *)
NetworkOpLock(w) ==
    /\ networkOpMu = 0
    /\ networkOpMu' = w

(* an Unlock that a failed call skips *)
NetworkOpUnlockOnSuccess(w, ok) ==
    networkOpMu' = (IF ok THEN 0 ELSE networkOpMu)

(* an Unlock that is put off until the trial has ended *)
NetworkOpUnlockLater(w, ok) == UNCHANGED networkOpMu

(* defer networkOpMu.Unlock(): runs when Deploy or Destroy returns, with   *)
(* or without an error                                                     *)
NetworkOpUnlock(w, ok) == networkOpMu' = 0

(* networkOpMu.Lock(), then c.Runner.Run("sudo", "containerlab",           *)
(* "deploy", ...) starts                                                   *)
DeployCall(w) ==
    /\ phase = "running"
    /\ pc[w] = "deploy_lock"
    /\ NetworkOpLock(w)
    /\ inFlight' = inFlight \cup {w}
    /\ pc' = [pc EXCEPT ![w] = "deploy_run"]
    /\ UNCHANGED <<inputVars, phase, taskChan, results, cur, rr, runCount,
                   loadVars, trialVars>>

(* RunWithResult without its "defer func() { ... Destroy() }()" *)
AfterDeployNoDestroy(ds) == ds

(* the deferred calls RunWithResult registers once Deploy has succeeded *)
AfterDeploy(ds) == Append(ds, "destroy")

(* a runner that goes on to the telemetry setup after a failed Deploy *)
DeployFailedIgnored(w) ==
    /\ tr' = [tr EXCEPT ![w].hostIdx = 1]
    /\ pc' = [pc EXCEPT ![w] = "tcpdump"]
    /\ UNCHANGED <<rr, gh, defers>>

(* if err := networkController.Deploy(); err != nil: RunWithResult returns *)
(* "failed to deploy network" before any deferred Destroy is registered    *)
DeployFailed(w) ==
    /\ ReturnResult(w, tr[w].logDir, "deploy")
    /\ UNCHANGED <<gh, defers, tr>>

(* the external deploy call returns, the deferred Unlock runs; on success  *)
(* RunWithResult registers the deferred Destroy                            *)
DeployReturn(w) ==
    /\ phase = "running"
    /\ pc[w] = "deploy_run"
    /\ inFlight' = inFlight \ {w}
    /\ \E ok \in BOOLEAN :
          /\ NetworkOpUnlock(w, ok)
          /\ IF ok
             THEN /\ gh' = [gh EXCEPT ![w].deployed = TRUE]
                  /\ defers' = [defers EXCEPT ![w] = AfterDeploy(@)]
                  /\ tr' = [tr EXCEPT ![w].hostIdx = 1]
                  /\ pc' = [pc EXCEPT ![w] = "tcpdump"]
                  /\ UNCHANGED rr
             ELSE DeployFailed(w)
    /\ UNCHANGED <<inputVars, phase, taskChan, results, cur, runCount,
                   loadVars, logrusOut>>

(* the topology directories with .log files that the devices of the lab    *)
(* write to while it runs: their size changes during every trial that      *)
(* deploys the topology                                                    *)
LoggingTopos == {<<"ta">>, <<"th">>}

(* findTopoPath: filepath.Dir(c.Scenario.Topo) *)
findTopoPath(topo) == IF topo = NoTopo THEN <<".">> ELSE <<topo[1]>>

(* a registration that puts collectLogs below the deferred Destroy *)
AfterTcpdumpBelowDestroy(ds) ==
    SubSeq(ds, 1, Len(ds) - 1) \o <<"collectLogs", ds[Len(ds)]>>

(* the deferred calls registered once every SetupTcpdump has succeeded *)
AfterTcpdump(ds) == Append(ds, "collectLogs")

(* one iteration of "for _, node := range scenario.Hosts": SetupTcpdump    *)
(* creates {topo dir}/{node}/tcpdump.sh, and fails when the node is no     *)
(* device or when a docker command fails; after the last host the          *)
(* deferred collectLogs is registered                                      *)
SetupTcpdump(w) ==
    /\ phase = "running"
    /\ pc[w] = "tcpdump"
    /\ IF tr[w].hostIdx > tr[w].scenario.Hosts.len
       THEN /\ defers' = [defers EXCEPT ![w] = AfterTcpdump(@)]
            /\ pc' = [pc EXCEPT ![w] = "events"]
            /\ UNCHANGED <<rr, tr, gh>>
       ELSE LET node == heap[tr[w].scenario.Hosts.arr][tr[w].hostIdx]
                script == findTopoPath(tr[w].scenario.Topo)
                             \o <<node, "tcpdump.sh">>
            IN /\ gh' = [gh EXCEPT ![w].wrote = @ \cup {script},
                                   ![w].tcpdumps = 1]
               /\ \E ok \in BOOLEAN :
                     IF ok /\ node \in Range(Elems(heap, tr[w].devices.Nodes))
                     THEN /\ tr' = [tr EXCEPT ![w].hostIdx = @ + 1]
                          /\ UNCHANGED <<rr, pc>>
                     ELSE /\ ReturnResult(w, tr[w].logDir, "tcpdump")
                          /\ UNCHANGED tr
               /\ UNCHANGED defers
    /\ UNCHANGED <<inputVars, phase, taskChan, results, cur, runCount,
                   loadVars, netVars, logrusOut>>

(***************************************************************************)
(* ScenarioRunner.executeEvents and EventExecutor.Execute.                 *)
(***************************************************************************)
(* the begin times of the events are parsed first, "" as 0: one that is   *)
(* no duration makes executeEvents return its error before any goroutine   *)
(* is started; otherwise the done channel is made and one goroutine per    *)
(* event is started                                                        *)
ExecuteEvents(w) ==
    /\ phase = "running"
    /\ pc[w] = "events"
    /\ LET events == Elems(heap, tr[w].scenario.Event)
       IN IF \E i \in 1..Len(events) :
                 /\ events[i].BeginTime # ""
                 /\ ~ParsesAsDuration(events[i].BeginTime)
          THEN /\ ReturnResult(w, tr[w].logDir, "event execution failed")
               /\ tr' = [tr EXCEPT ![w].eventsErr = "invalid begin time"]
          ELSE /\ tr' = [tr EXCEPT ![w].pending = 1..Len(events),
                                   ![w].done = <<>>]
               /\ pc' = [pc EXCEPT ![w] = "events_wait"]
               /\ UNCHANGED rr
    /\ UNCHANGED <<inputVars, phase, taskChan, results, cur, runCount,
                   loadVars, netVars, logrusOut, defers, gh>>

(* what EventExecutor.Execute can do for an event of a kind: failed is     *)
(* whether an external command of the event has failed, err is the error   *)
(* Execute returns.  execDummy returns the error of an unparsable          *)
(* duration; execPumba and execConfig return the error of their command;   *)
(* execShell and execCopy log the error of a command and return nil;       *)
(* execCollect does so for a failed copy and returns the error of          *)
(* MkdirAll; an unknown kind is an error                                   *)
ExecuteOutcomes(event, duration) ==
    IF event.Type = "dummy"
    THEN {[failed |-> FALSE,
           err |-> IF ParsesAsDuration(duration) THEN "nil" ELSE "duration"]}
    ELSE IF event.Type \in {"pumba", "config"}
    THEN {[failed |-> FALSE, err |-> "nil"],
          [failed |-> TRUE, err |-> event.Type]}
    ELSE IF event.Type \in {"shell", "copy"}
    THEN {[failed |-> FALSE, err |-> "nil"], [failed |-> TRUE, err |-> "nil"]}
    ELSE IF event.Type = "collect"
    THEN {[failed |-> FALSE, err |-> "nil"], [failed |-> TRUE, err |-> "nil"],
          [failed |-> FALSE, err |-> event.Type]}
    ELSE {[failed |-> FALSE, err |-> "invalid event type"]}

(* model.GetLabName: no custom lab name is set by the runner, so the name  *)
(* is that of the process-wide Devices, or of Scenar if that is empty      *)
GetLabName == IF Devices.Name # "" THEN Devices.Name
              ELSE Scenar.ScenarioName

(* ExecPumbaCommand(index): the event whose parameters the command is      *)
(* built from, and the lab name of the containers it is applied to         *)
(* (model.ClabHostName: "clab-" + GetLabName() + "-" + host)               *)
ExecPumbaCommand(index) ==
    [event |-> heap[Scenar.Event.arr][index], lab |-> GetLabName]

(* the goroutine of event i: executor.Execute(i) reads                     *)
(* e.Scenario.Event[i], runs it, and sends the error on done.  execPumba   *)
(* calls ExecPumbaCommand(i), which reads model.Scenar.Event[i] of the     *)
(* process-wide Scenar: an index beyond its length panics                  *)
ExecuteEvent(w, i) ==
    /\ phase = "running"
    /\ pc[w] = "events_wait"
    /\ i \in tr[w].pending
    /\ LET event == heap[tr[w].scenario.Event.arr][i]
       IN IF event.Type = "pumba" /\ i > Scenar.Event.len
          THEN /\ phase' = "panicked"
               /\ UNCHANGED <<tr, gh>>
          ELSE /\ \E o \in ExecuteOutcomes(event, tr[w].scenario.Duration) :
                    /\ tr' = [tr EXCEPT ![w].pending = @ \ {i},
                                        ![w].done = Append(@, o.err)]
                    /\ gh' = [gh EXCEPT
                                ![w].ran = @ \cup {i},
                                ![w].failed = IF o.failed THEN @ \cup {i}
                                              ELSE @]
               /\ UNCHANGED phase
    /\ UNCHANGED <<inputVars, taskChan, results, pc, cur, rr, runCount,
                   loadVars, netVars, logrusOut, defers>>

(* the first non-nil error received *)
RECURSIVE FirstError(_)
FirstError(done) ==
    IF done = <<>> THEN "nil"
    ELSE IF Head(done) # "nil" THEN Head(done)
    ELSE FirstError(Tail(done))

(* lastError of the receive loop: the last non-nil error received *)
RECURSIVE LastError(_)
LastError(done) ==
    IF done = <<>> THEN "nil"
    ELSE IF done[Len(done)] # "nil" THEN done[Len(done)]
    ELSE LastError(SubSeq(done, 1, Len(done) - 1))

(* a receive loop that stops at the first error it receives *)
ReceivedFirstError(w) == tr[w].pending = {} \/ LastError(tr[w].done) # "nil"

(* "for range scenario.Event { err := <-done ... }": one value has been    *)
(* received for every event                                                *)
ReceivedAll(w) == tr[w].pending = {}

(* the receive loop has received one value per event: executeEvents        *)
(* returns lastError, and RunWithResult returns                            *)
ExecuteEventsReturn(w) ==
    /\ phase = "running"
    /\ pc[w] = "events_wait"
    /\ ReceivedAll(w)
    /\ tr' = [tr EXCEPT ![w].eventsErr = LastError(tr[w].done)]
    /\ ReturnResult(w, tr[w].logDir,
                    IF LastError(tr[w].done) = "nil" THEN "nil"
                    ELSE "event execution failed")
    /\ UNCHANGED <<inputVars, phase, taskChan, results, cur, runCount,
                   loadVars, netVars, logrusOut, defers, gh>>

(***************************************************************************)
(* The deferred calls of RunWithResult, run last registered first.         *)
(***************************************************************************)
Top(ds) == ds[Len(ds)]

Pop(ds) == SubSeq(ds, 1, Len(ds) - 1)

(* collectLogs: the .log files under the topology directory whose size     *)
(* changes between the two walks are copied to the trial's log directory   *)
(* and truncated; the tcpdump directory of every host is copied out of the *)
(* container into {topo dir}/{host}/ and from there to the log directory   *)
(* (the first walk, StockInitialSize, is taken inside collectLogs itself;  *)
(* only the files of a topology whose devices write logs can change)       *)
CollectLogs(w) ==
    /\ phase = "running"
    /\ pc[w] = "unwind"
    /\ Top(defers[w]) = "collectLogs"
    /\ defers' = [defers EXCEPT ![w] = Pop(@)]
    /\ LET topoPath == findTopoPath(tr[w].scenario.Topo)
           hosts == Elems(heap, tr[w].scenario.Hosts)
           topoLogs == topoPath \o <<"*.log">>
           dumps == {topoPath \o <<hosts[k], "tcpdump">> : k \in 1..Len(hosts)}
           copies == {tr[w].logDir \o <<hosts[k], "tcpdump">> :
                         k \in 1..Len(hosts)}
       IN \E changed \in BOOLEAN, cpOk \in BOOLEAN :
            /\ changed => topoPath \in LoggingTopos
            /\ gh' = [gh EXCEPT
                     ![w].collects = @ + 1,
                     ![w].read = @ \cup {topoLogs}
                                   \cup (IF cpOk THEN dumps ELSE {}),
                     ![w].wrote = @ \cup dumps
                                    \cup (IF cpOk THEN copies ELSE {})
                                    \cup (IF cpOk /\ changed
                                          THEN {topoLogs,
                                                tr[w].logDir \o <<"*.log">>}
                                          ELSE {})]
    /\ UNCHANGED <<inputVars, execVars, loadVars, netVars, logrusOut, tr>>

(* the deferred Destroy: networkOpMu.Lock(), then c.Runner.Run("sudo",     *)
(* "containerlab", "destroy", ...) starts                                  *)
DestroyCall(w) ==
    /\ phase = "running"
    /\ pc[w] = "unwind"
    /\ Top(defers[w]) = "destroy"
    /\ NetworkOpLock(w)
    /\ inFlight' = inFlight \cup {w}
    /\ pc' = [pc EXCEPT ![w] = "destroy_run"]
    /\ UNCHANGED <<inputVars, phase, taskChan, results, cur, rr, runCount,
                   loadVars, trialVars>>

(* a deferred function that puts the error of Destroy into the result *)
DestroyFailedReturned(w) == rr' = [rr EXCEPT ![w].Error = "destroy"]

(* if err := networkController.Destroy(); err != nil { logrus.Errorf }:    *)
(* the error is logged and the result RunWithResult returns stays          *)
DestroyFailed(w) == UNCHANGED rr

(* the external destroy call returns, with or without an error, and the    *)
(* deferred Unlock runs; err is a local of the deferred function, which    *)
(* returns before the next deferred call runs                              *)
DestroyReturn(w) ==
    /\ phase = "running"
    /\ pc[w] = "destroy_run"
    /\ inFlight' = inFlight \ {w}
    /\ \E ok \in BOOLEAN :
          /\ NetworkOpUnlock(w, ok)
          /\ tr' = [tr EXCEPT ![w].destroyErr = ~ok]
          /\ IF ok THEN UNCHANGED rr ELSE DestroyFailed(w)
    /\ gh' = [gh EXCEPT ![w].destroys = @ + 1]
    /\ defers' = [defers EXCEPT ![w] = Pop(@)]
    /\ pc' = [pc EXCEPT ![w] = "unwind"]
    /\ UNCHANGED <<inputVars, phase, taskChan, results, cur, runCount,
                   loadVars, logrusOut>>

(* defer logrus.SetOutput(os.Stdout) *)
RestoreOutput(w) ==
    /\ phase = "running"
    /\ pc[w] = "unwind"
    /\ Top(defers[w]) = "restoreOutput"
    /\ logrusOut' = <<"stdout">>
    /\ defers' = [defers EXCEPT ![w] = Pop(@)]
    /\ tr' = [tr EXCEPT ![w].destroyErr = FALSE]
    /\ UNCHANGED <<inputVars, execVars, loadVars, netVars, gh>>

(* defer controlLogFile.Close(), the first registered and so the last to   *)
(* run: RunWithResult has returned                                         *)
CloseLog(w) ==
    /\ phase = "running"
    /\ pc[w] = "unwind"
    /\ Top(defers[w]) = "closeLog"
    /\ defers' = [defers EXCEPT ![w] = Pop(@)]
    /\ pc' = [pc EXCEPT ![w] = "ret"]
    /\ UNCHANGED <<inputVars, phase, taskChan, results, cur, rr, runCount,
                   loadVars, netVars, logrusOut, tr, gh>>

(***************************************************************************)
(* The executor with a TaskRunner that only returns nil or an error, as    *)
(* the mock runners of executor_test.go do.                                *)
(***************************************************************************)
InitExec ==
    \E p \in Plans, par \in 0..MaxParallel :
        InitExecutor(p, par) /\ InitRunner

NextExec ==
    \/ ExecuteWithProgress
    \/ ExecuteReturn
    \/ CommandReturn
    \/ \E w \in Workers : TakeTask(w)
    \/ \E w \in Workers : WorkerExit(w)
    \/ \E w \in Workers : StoreResult(w)
    \/ \E w \in Workers : MockRun(w)

SpecExec == InitExec /\ [][NextExec]_vars

(***************************************************************************)
(* The batch: the executor running ScenarioRunner.RunWithResult.           *)
(***************************************************************************)
Init ==
    \E p \in TrialPlans, par \in 1..MaxParallel :
        InitExecutor(p, par) /\ InitRunner

Next ==
    \/ ExecuteWithProgress
    \/ ExecuteReturn
    \/ CommandReturn
    \/ \E w \in Workers : TakeTask(w)
    \/ \E w \in Workers : WorkerExit(w)
    \/ \E w \in Workers : StoreResult(w)
    \/ \E w \in Workers : LoadLock(w)
    \/ \E w \in Workers : LoadScenarioAndDevices(w)
    \/ \E w \in Workers : SetupLogging(w)
    \/ \E w \in Workers : ValidateHosts(w)
    \/ \E w \in Workers : AppendDummy(w)
    \/ \E w \in Workers : DeployAllocate(w)
    \/ \E w \in Workers : DeployCall(w)
    \/ \E w \in Workers : DeployReturn(w)
    \/ \E w \in Workers : SetupTcpdump(w)
    \/ \E w \in Workers : ExecuteEvents(w)
    \/ \E w \in Workers : \E i \in 1..4 : ExecuteEvent(w, i)
    \/ \E w \in Workers : ExecuteEventsReturn(w)
    \/ \E w \in Workers : CollectLogs(w)
    \/ \E w \in Workers : DestroyCall(w)
    \/ \E w \in Workers : DestroyReturn(w)
    \/ \E w \in Workers : RestoreOutput(w)
    \/ \E w \in Workers : CloseLog(w)

Spec == Init /\ [][Next]_vars

(***************************************************************************)
(* One worker running up to MaxSolo trials one after the other, over every *)
(* scenario file.                                                          *)
(***************************************************************************)
SoloPlans ==
    UNION {[1..n -> {[Pattern |-> f, Repeat |-> 1, YAML |-> IsYAMLExtension(f)] :
                        f \in ScenarioPaths \cup ExtraPaths}] :
             n \in 1..MaxSolo}

InitTrial == \E p \in SoloPlans : InitExecutor(p, 1) /\ InitRunner

SpecTrial == InitTrial /\ [][Next]_vars

(***************************************************************************)
(* Two workers running two trials, of a scenario whose hosts are devices   *)
(* and of one with a host that is no device.                               *)
(***************************************************************************)
MixPlans ==
    [1..2 -> {[Pattern |-> f, Repeat |-> 1, YAML |-> FALSE] :
                 f \in {PathA, ExtraPath("h")}}]

InitMix == \E p \in MixPlans : InitExecutor(p, 2) /\ InitRunner

SpecMix == InitMix /\ [][Next]_vars

(***************************************************************************)
(* Two tasks handed to Executor.Execute, each the first run or run LateRun *)
(* of a scenario with a topology and no device data; run LateRun is the    *)
(* first whose /24 subnet lies beyond 172.16.0.0/12.                       *)
(***************************************************************************)
AllocTasks ==
    {GenerateTasks(ExtraPath("k"), n, FALSE)[n] : n \in {1, LateRun}}

InitAlloc ==
    /\ calc = NoCalc
    /\ planFile = NoPlanFile
    /\ batchErr = "nil"
    /\ summary = NoSummary
    /\ plan = <<>>
    /\ cfgParallel \in 0..MaxParallel
    /\ tasks \in UNION {[1..n -> AllocTasks] : n \in 0..2}
    /\ parallel = NewExecutor(cfgParallel)
    /\ phase = "new"
    /\ taskChan = <<>>
    /\ results = <<>>
    /\ pc = [w \in Workers |-> "off"]
    /\ cur = [w \in Workers |-> 0]
    /\ rr = [w \in Workers |-> NoRR]
    /\ runCount = [i \in 1..Len(tasks) |-> 0]
    /\ InitRunner

SpecAlloc == InitAlloc /\ [][Next]_vars

(* the same, where a step is taken as long as one is possible: every       *)
(* goroutine that can run does run, and every external command returns     *)
SpecAllocFair == InitAlloc /\ [][Next]_vars /\ WF_vars(Next)

(***************************************************************************)
(* The batch command: LoadPlan, Plan.ExpandScenarios and                   *)
(* GenerateTasksFromPlan in front of the executor.                         *)
(***************************************************************************)
(* the scenario files on disk, in the lexical order filepath.Glob returns  *)
DiskFiles ==
    <<PathA, PathB,
      <<"t", "/", "a", ".", "j", "s", "o", "n">>>>

(* filepath.Match for patterns of characters, *, ? and classes [...] of    *)
(* plain characters; * and ? do not match the separator.  The pattern is   *)
(* well-formed here: every [ has its ]                                     *)
RECURSIVE GlobMatch(_, _)
GlobMatch(pat, name) ==
    IF pat = <<>> THEN name = <<>>
    ELSE IF Head(pat) = "*"
         THEN \/ GlobMatch(Tail(pat), name)
              \/ name # <<>> /\ Head(name) # "/" /\ GlobMatch(pat, Tail(name))
    ELSE IF name = <<>> THEN FALSE
    ELSE IF Head(pat) = "?"
         THEN Head(name) # "/" /\ GlobMatch(Tail(pat), Tail(name))
    ELSE IF Head(pat) = "["
         THEN LET close == CHOOSE j \in 3..Len(pat) :
                              /\ pat[j] = "]"
                              /\ \A i \in 3..(j - 1) : pat[i] # "]"
              IN /\ Head(name) \in {pat[i] : i \in 2..(close - 1)}
                 /\ GlobMatch(SubSeq(pat, close + 1, Len(pat)), Tail(name))
    ELSE Head(pat) = Head(name) /\ GlobMatch(Tail(pat), Tail(name))

(* filepath.Glob(pattern): Match(pattern, "") is tried first, and a class  *)
(* that is not closed is ErrBadPattern; else the files that match          *)
Glob(pattern) ==
    IF \E i \in 1..Len(pattern) :
          /\ pattern[i] = "["
          /\ \A j \in (i + 2)..Len(pattern) : pattern[j] # "]"
    THEN [err |-> "syntax error in pattern", matches |-> <<>>]
    ELSE [err |-> "nil",
          matches |-> SelectSeq(DiskFiles, LAMBDA f : GlobMatch(pattern, f))]

(* a check that does not know the character [ *)
containsStarOrQuestion(pattern) ==
    \E i \in 1..Len(pattern) : pattern[i] \in {"*", "?"}

(* containsGlobChar: one of the characters *, ? and [ *)
containsGlobChar(pattern) ==
    \E i \in 1..Len(pattern) : pattern[i] \in {"*", "?", "["}

(* Plan.ExpandScenarios: one entry per matched file; a pattern that is     *)
(* malformed is an error; a pattern without a match is kept when it holds  *)
(* no metacharacter and is an error otherwise                              *)
RECURSIVE ExpandScenarios(_)
ExpandScenarios(scenarios) ==
    IF scenarios = <<>> THEN [err |-> "nil", expanded |-> <<>>]
    ELSE LET entry == Head(scenarios)
             glob == Glob(entry.Pattern)
             matches == glob.matches
             rest == ExpandScenarios(Tail(scenarios))
             here == IF Len(matches) = 0 THEN <<entry>>
                     ELSE [k \in 1..Len(matches) |->
                             [Pattern |-> matches[k], Repeat |-> entry.Repeat,
                              YAML |-> entry.YAML]]
         IN IF glob.err # "nil"
            THEN [err |-> "invalid glob pattern", expanded |-> <<>>]
            ELSE IF Len(matches) = 0 /\ containsGlobChar(entry.Pattern)
            THEN [err |-> "no files match pattern", expanded |-> <<>>]
            ELSE IF rest.err # "nil" THEN rest
            ELSE [err |-> "nil", expanded |-> here \o rest.expanded]

(* LoadPlan: a file that does not parse and a plan without scenarios are   *)
(* errors; Parallel and Repeat below 1 become 1                            *)
LoadPlan(file) ==
    IF ~file.ok THEN [err |-> "failed to parse plan file", plan |-> NoPlanFile]
    ELSE IF Len(file.Scenarios) = 0
         THEN [err |-> "no scenarios defined", plan |-> NoPlanFile]
    ELSE [err |-> "nil",
          plan |-> [ok |-> TRUE,
                    Parallel |-> Max(1, file.Parallel),
                    Scenarios |-> [k \in 1..Len(file.Scenarios) |->
                        [file.Scenarios[k] EXCEPT !.Repeat = Max(1, @)]]]]

(* the patterns of the plan files: two files, a file that does not exist,  *)
(* three patterns with matches, two without, and a malformed pattern       *)
PlanPatterns ==
    {PathA, PathB,
     <<"s", "/", "x", ".", "j", "s", "o", "n">>,
     <<"s", "/", "*", ".", "j", "s", "o", "n">>,
     <<"?", "/", "a", ".", "j", "s", "o", "n">>,
     <<"s", "/", "z", "*">>,
     <<"[", "s", "t", "]", "/", "a", ".", "j", "s", "o", "n">>,
     <<"s", "/", "[", "z", "]", ".", "j", "s", "o", "n">>,
     <<"s", "/", "[", "a">>}

(* the number of tasks a plan file yields *)
PlanRuns(file) ==
    LET l == LoadPlan(file)
        e == ExpandScenarios(l.plan.Scenarios)
    IN IF l.err # "nil" \/ e.err # "nil" THEN 0 ELSE SumRepeat(e.expanded)

(* the plan files of the model: malformed, or up to MaxEntries entries     *)
(* that yield at most MaxTasks tasks                                       *)
PlanFiles ==
    {[ok |-> FALSE, Parallel |-> 0, Scenarios |-> <<>>]} \cup
    {f \in [ok : {TRUE}, Parallel : {0, MaxParallel},
            Scenarios : UNION {[1..n -> [Pattern : PlanPatterns,
                                         Repeat : 0..MaxRepeat,
                                         YAML : BOOLEAN]] :
                                  n \in 0..MaxEntries}] :
        PlanRuns(f) <= MaxTasks}

(* batchScenario up to GenerateTasksFromPlan: LoadPlan, the --parallel     *)
(* override, the expansion and the tasks; an error ends the command        *)
BatchGenerateTasks ==
    /\ phase = "plan"
    /\ LET l == LoadPlan(planFile)
           e == ExpandScenarios(l.plan.Scenarios)
       IN IF l.err # "nil" \/ e.err # "nil"
          THEN /\ batchErr' = (IF l.err # "nil" THEN l.err ELSE e.err)
               /\ phase' = "failed"
               /\ UNCHANGED <<plan, tasks, parallel, runCount>>
          ELSE /\ plan' = e.expanded
               /\ tasks' = GenerateTasksFromPlan(e.expanded)
               /\ parallel' = NewExecutor(IF cfgParallel > 0 THEN cfgParallel
                                          ELSE l.plan.Parallel)
               /\ runCount' = [i \in 1..SumRepeat(e.expanded) |-> 0]
               /\ phase' = "new"
               /\ UNCHANGED batchErr
    /\ UNCHANGED <<calc, planFile, summary, cfgParallel, taskChan, results,
                   pc, cur, rr, runnerVars>>

InitBatch ==
    /\ calc = NoCalc
    /\ planFile \in PlanFiles
    /\ cfgParallel \in {0, 1}
    /\ batchErr = "nil"
    /\ summary = NoSummary
    /\ plan = <<>>
    /\ tasks = <<>>
    /\ parallel = 1
    /\ phase = "plan"
    /\ taskChan = <<>>
    /\ results = <<>>
    /\ pc = [w \in Workers |-> "off"]
    /\ cur = [w \in Workers |-> 0]
    /\ rr = [w \in Workers |-> NoRR]
    /\ runCount = <<>>
    /\ InitRunner

NextBatch == BatchGenerateTasks \/ NextExec

SpecBatch == InitBatch /\ [][NextBatch]_vars

(***************************************************************************)
(* The subnet allocator called for two lab names and one device count, as  *)
(* the tests of emulation_test.go call it.                                 *)
(***************************************************************************)
(* lab names: RunIDs of a batch, names without a number, and names whose   *)
(* number is past the address range, past 16 bits, past 32 bits of         *)
(* addresses, or negative                                                  *)
LabNames ==
    {<<"a", "_", "0", "0", "1">>, <<"b", "_", "0", "0", "1">>,
     <<"a", "_", "0", "0", "2">>, <<"a", "_", "1">>,
     <<"l", "a", "b">>, <<"a", "_">>, <<"a", "_", "x", "1">>,
     <<"a", "_", "1", "x">>, <<"a", "_", "2", "5", "5">>,
     <<"a", "_", "-", "1">>,
     <<"a", "_", "2", "0", "4", "8">>,
     <<"a", "_", "6", "5", "5", "3", "6">>,
     <<"a", "_", "2", "6", "2", "1", "4", "4">>,
     <<"a", "_", "3", "5", "2", "0", "5", "9", "3", "9", "2">>,
     <<"a", "_", "1", "0", "7", "3", "7", "4", "1", "8", "2", "5">>}

(* device counts with prefixes /30, /29, /24, /23 (254, the default) and   *)
(* /16, the last of them with and without enough addresses                *)
DeviceCounts == {0, 1, 2, 3, 253, 254, 40000, 65533, 65534, 70000}

(* generateSubnet and generateIPv6Subnet for both lab names *)
Allocate ==
    /\ calc.labs # <<>>
    /\ calc.out = <<>>
    /\ calc' = [calc EXCEPT !.out =
                  [k \in 1..2 |->
                     [size |-> calculateSubnetSize(calc.n),
                      index |-> extractLabIndex(calc.labs[k]),
                      v4 |-> generateSubnet(calc.labs[k], calc.n),
                      v6 |-> generateIPv6Subnet(calc.labs[k])]]]
    /\ UNCHANGED <<planFile, batchErr, summary, plan, cfgParallel, tasks,
                   parallel, execVars, runnerVars>>

InitSubnet ==
    /\ calc \in [labs : LabNames \X LabNames, n : DeviceCounts, out : {<<>>}]
    /\ planFile = NoPlanFile
    /\ batchErr = "nil"
    /\ summary = NoSummary
    /\ plan = <<>>
    /\ cfgParallel = 1
    /\ tasks = <<>>
    /\ parallel = 1
    /\ phase = "new"
    /\ taskChan = <<>>
    /\ results = <<>>
    /\ pc = [w \in Workers |-> "off"]
    /\ cur = [w \in Workers |-> 0]
    /\ rr = [w \in Workers |-> NoRR]
    /\ runCount = <<>>
    /\ InitRunner

NextSubnet == Allocate

SpecSubnet == InitSubnet /\ [][NextSubnet]_vars

(***************************************************************************)
(* Properties.                                                             *)
(***************************************************************************)
(* a worker between taking a task and storing its result *)
Active(w) == pc[w] \notin {"off", "idle", "exit"}

(* C1: whatever the mix of Deploy and Destroy calls of the concurrently    *)
(* running controllers, at most one external deploy-or-destroy call is in  *)
(* flight at any instant                                                   *)
C1_AtMostOneExternalCall == Cardinality(inFlight) <= 1

(* the external destroy call of one trial is running while another trial   *)
(* waits for the mutex to deploy                                           *)
C1_DestroyHoldsOffDeploy ==
    \E w \in Workers, v \in Workers :
        /\ w # v
        /\ pc[w] = "destroy_run" /\ w \in inFlight
        /\ pc[v] = "deploy_lock"

(* the lab of the trial is deployed and not yet destroyed *)
LabUp(w) == gh[w].deployed /\ gh[w].destroys = 0

(* C2: two trials of one batch with distinct RunIDs whose labs are up at   *)
(* the same time were given IPv4 ranges that do not overlap and IPv6 /64   *)
(* ranges that differ                                                      *)
C2_DisjointAddressRanges ==
    \A w \in Workers, v \in Workers :
        (w # v /\ LabUp(w) /\ LabUp(v) /\ LabName(w) # LabName(v))
        => /\ ~RangesOverlap(SubnetRange(tr[w].ipv4), SubnetRange(tr[v].ipv4))
           /\ tr[w].ipv6.group4 # tr[v].ipv6.group4

(* two labs with distinct RunIDs are up at the same time *)
C2_TwoLabsUp ==
    \E w \in Workers, v \in Workers :
        w # v /\ LabUp(w) /\ LabUp(v) /\ LabName(w) # LabName(v)

(* C3: the results ExecuteWithProgress returns have the length of the task *)
(* list, and results[i] is the result of tasks[i] for every i, whichever   *)
(* worker ran the task and in whatever order the tasks completed           *)
C3_ResultsAlignedWithTasks ==
    phase = "returned"
    => /\ Len(results) = Len(tasks)
       /\ \A i \in 1..Len(tasks) :
             results[i].filled /\ results[i].Task = tasks[i]

(* a pool of two workers has returned the results of three tasks *)
C3_ReturnedThreeTasksTwoWorkers ==
    /\ phase = "returned"
    /\ parallel = 2
    /\ Len(tasks) = 3
    /\ \A w \in Workers : pc[w] = "exit"

Running == {w \in Workers : pc[w] \in {"run", "ret"}}

(* C5: at any instant at most max(1, P) tasks are being run, P the         *)
(* configured pool size                                                    *)
C5_AtMostPoolSizeRunning == Cardinality(Running) <= Max(1, cfgParallel)

(* a pool configured with size 0 is running one task while another task is *)
(* still queued                                                            *)
C5_PoolOfZeroRunsOneTask ==
    cfgParallel = 0 /\ Cardinality(Running) = 1 /\ taskChan # <<>>

(* C6: Destroy is never invoked twice for a trial, and when RunWithResult  *)
(* has returned after a successful Deploy, Destroy has been invoked        *)
(* exactly once, whatever the exit path                                    *)
C6_DestroyOnceAfterDeploy ==
    \A w \in Workers :
        /\ gh[w].destroys <= 1
        /\ (pc[w] = "ret" /\ gh[w].deployed) => gh[w].destroys = 1

(* RunWithResult has returned the error of a failed telemetry setup, after *)
(* a successful Deploy and one Destroy                                     *)
C6_ReturnedAfterTelemetryFailure ==
    \E w \in Workers :
        /\ pc[w] = "ret"
        /\ gh[w].deployed
        /\ rr[w].Error = "tcpdump"
        /\ gh[w].destroys = 1

(* C7: when RunWithResult has returned after a successful Deploy, log      *)
(* collection has been executed for the trial, whatever the exit path      *)
C7_LogsCollectedAfterDeploy ==
    \A w \in Workers :
        (pc[w] = "ret" /\ gh[w].deployed) => gh[w].collects >= 1

(* RunWithResult has returned an event-execution failure after a           *)
(* successful Deploy, and the logs have been collected                     *)
C7_CollectedAfterEventFailure ==
    \E w \in Workers :
        /\ pc[w] = "ret"
        /\ gh[w].deployed
        /\ rr[w].Error = "event execution failed"
        /\ gh[w].collects = 1

(* the Scenario and Device values a trial works with, slices read through  *)
(* their headers                                                           *)
View(w) ==
    [ScenarioName |-> tr[w].scenario.ScenarioName,
     Topo |-> tr[w].scenario.Topo,
     Data |-> tr[w].scenario.Data,
     Duration |-> tr[w].scenario.Duration,
     Hosts |-> Elems(heap, tr[w].scenario.Hosts),
     Event |-> Elems(heap, tr[w].scenario.Event),
     Name |-> tr[w].devices.Name,
     Nodes |-> Elems(heap, tr[w].devices.Nodes)]

(* the trial's loadScenarioAndDevices has returned *)
Loaded(w) == Active(w) /\ pc[w] \notin {"run", "loading"}

(* C8: a load that another trial completes leaves every part of the        *)
(* Scenario and Device values of a trial whose own load has returned as    *)
(* they were: event list, host list and device node list included          *)
C8_LoadLeavesOtherTrialsData ==
    [][\A w \in Workers, v \in Workers :
          (w # v /\ Loaded(w) /\ pc[v] = "loading" /\ pc'[v] # "loading")
          => View(w)' = View(w)]_vars

(* a trial completes its load while another trial works with loaded data *)
C8_LoadBesideLoadedTrial ==
    \E w \in Workers, v \in Workers :
        /\ w # v
        /\ Loaded(w) /\ tr[w].scenario.Event.len > 0
        /\ pc[v] = "mkdir"

(* what the files of a scenario path hold: a key the document does not     *)
(* hold has the zero value, the events are in Less order, and the devices  *)
(* are those of the data file the scenario names                           *)
FileData(path) ==
    LET doc == ScenarioDoc(path)
        val(key, zero) == IF key \in doc.has THEN doc[key] ELSE zero
        data == val("data", "")
    IN [ScenarioName |-> val("scenarioName", ""),
        Topo |-> val("topo", NoTopo),
        Data |-> data,
        Duration |-> val("duration", ""),
        Hosts |-> val("hosts", <<>>),
        Event |-> SortEvents(val("event", <<>>)),
        Name |-> IF data = "" THEN "" ELSE DataDoc(data).name,
        Nodes |-> IF data = "" THEN <<>> ELSE DataDoc(data).nodes]

(* C9: the values loadScenarioAndDevices returns to a trial are those of   *)
(* the trial's own scenario and data files, whatever loads came before     *)
C9_LoadReturnsOwnFiles ==
    [][\A w \in Workers :
          (pc[w] = "loading" /\ pc'[w] = "mkdir")
          => View(w)' = FileData(Task(w).ScenarioPath)]_vars

(* a load has returned to a trial, after the load of another scenario file *)
C9_LoadAfterAnotherFile ==
    \E w \in Workers :
        /\ pc[w] = "mkdir"
        /\ cur[w] = 2
        /\ tasks[1].ScenarioPath # tasks[2].ScenarioPath
        /\ results[1].filled

(* C10: a trial writes no path that another trial with a different RunID,  *)
(* active at the same time, writes or reads                                *)
C10_NoSharedArtifactPaths ==
    \A w \in Workers, v \in Workers :
        (w # v /\ Active(w) /\ Active(v) /\ LabName(w) # LabName(v))
        => gh[w].wrote \cap (gh[v].wrote \cup gh[v].read) = {}

(* two trials with different RunIDs are active and both have written *)
C10_TwoTrialsWriting ==
    \E w \in Workers, v \in Workers :
        /\ w # v /\ Active(w) /\ Active(v) /\ LabName(w) # LabName(v)
        /\ gh[w].wrote # {} /\ gh[v].wrote # {}

(* C11: the tasks generated for one batch execution have pairwise distinct *)
(* RunIDs                                                                  *)
C11_RunIDsDistinct ==
    \A i \in 1..Len(tasks), j \in 1..Len(tasks) :
        i # j => tasks[i].RunID # tasks[j].RunID

(* the batch has generated, for two different scenario files, two tasks    *)
(* with one RunID                                                          *)
C11_TwoFilesOneRunID ==
    \E i \in 1..Len(tasks), j \in 1..Len(tasks) :
        /\ tasks[i].ScenarioPath # tasks[j].ScenarioPath
        /\ tasks[i].RunID = tasks[j].RunID

(* C12: for two different lab names and one device count for which both    *)
(* allocations succeed, the two IPv4 ranges are disjoint and the two IPv6  *)
(* /64 subnets differ                                                      *)
C12_DifferentLabsDisjointSubnets ==
    (/\ calc.out # <<>>
     /\ calc.labs[1] # calc.labs[2]
     /\ \A k \in 1..2 : calc.out[k].v4.err = "nil" /\ calc.out[k].v6.err = "nil")
    => /\ ~RangesOverlap(SubnetRange(calc.out[1].v4),
                         SubnetRange(calc.out[2].v4))
       /\ calc.out[1].v6.group4 # calc.out[2].v6.group4

(* both allocations have succeeded for two lab names with different        *)
(* numbers, and the subnets are disjoint                                   *)
C12_TwoLabsAllocated ==
    /\ calc.out # <<>>
    /\ calc.labs = <<<<"a", "_", "0", "0", "1">>, <<"a", "_", "0", "0", "2">>>>
    /\ \A k \in 1..2 : calc.out[k].v4.err = "nil" /\ calc.out[k].v6.err = "nil"
    /\ ~RangesOverlap(SubnetRange(calc.out[1].v4), SubnetRange(calc.out[2].v4))

(* C13: generateSubnet fails with the range error whenever                 *)
(* 172.16.0.0 + labIndex * size + size - 1 is past 172.31.255.255, and a   *)
(* subnet it returns lies inside 172.16.0.0 - 172.31.255.255 (addresses in *)
(* units of 4)                                                             *)
C13_RangeErrorOrInsideRange ==
    calc.out # <<>>
    => \A k \in 1..2 :
         LET v4 == calc.out[k].v4
             sizeQ == Pow2(30 - v4.prefix)
             labIndex == extractLabIndex(calc.labs[k])
         IN /\ labIndex >= (MaxQ - BaseQ + 1) \div sizeQ
                 => v4.err = "exceeds range"
            /\ v4.err = "nil"
                 => /\ SubnetRange(v4).lo >= BaseQ
                    /\ SubnetRange(v4).hi <= MaxQ

(* generateSubnet has returned the range error for the first lab index     *)
(* past the range with /30 subnets                                         *)
C13_RangeErrorReturned ==
    /\ calc.out # <<>>
    /\ calc.n = 1
    /\ calc.labs[1] = <<"a", "_", "2", "6", "2", "1", "4", "4">>
    /\ calc.out[1].v4.err = "exceeds range"

(***************************************************************************)
(* C14: when every begin offset of the event list is a duration,           *)
(* executeEvents returns only after the handler of every event has been    *)
(* invoked once and has returned, whatever handlers have failed: at the    *)
(* return every index has run and one result per event has been received.  *)
(***************************************************************************)
C14_ReturnsAfterEveryHandler ==
    [][\A w \in Workers :
          (pc[w] = "events_wait" /\ pc'[w] # "events_wait")
             => /\ gh[w].ran = 1..tr[w].scenario.Event.len
                /\ Len(tr[w].done) = tr[w].scenario.Event.len]_vars

(* executeEvents has returned an event's error, three events have run and *)
(* an external command of one of them has failed                          *)
C14_ReturnedAfterFailingEvent ==
    \E w \in Workers :
        /\ pc[w] = "unwind"
        /\ rr[w].Error = "event execution failed"
        /\ gh[w].failed # {}
        /\ Cardinality(gh[w].ran) >= 3
        /\ gh[w].ran = 1..tr[w].scenario.Event.len

(* C14 as stated, for any event list: whenever executeEvents returns, the *)
(* handler of every event has been invoked                                *)
C14_AnyListEveryHandlerInvoked ==
    [][\A w \in Workers :
          (pc[w] \in {"events", "events_wait"}
              /\ pc'[w] \notin {"events", "events_wait"})
             => gh'[w].ran = 1..tr[w].scenario.Event.len]_vars

(***************************************************************************)
(* C15: if an external command of any event of a trial has failed, the     *)
(* TaskRunnerResult RunWithResult returns carries an error.                *)
(***************************************************************************)
C15_FailedEventFailsTrial ==
    \A w \in Workers :
        (pc[w] = "ret" /\ gh[w].failed # {}) => rr[w].Error # "nil"

(* RunWithResult has returned the error of a failed fault injection or    *)
(* configuration change                                                   *)
C15_CommandFailureReported ==
    \E w \in Workers :
        /\ pc[w] = "ret"
        /\ gh[w].failed # {}
        /\ rr[w].Error = "event execution failed"

(***************************************************************************)
(* C16: a trial whose event list holds an event of a kind other than       *)
(* dummy, pumba, shell, config, copy and collect is failed as a whole: no  *)
(* handler of the trial's events is run.                                   *)
(***************************************************************************)
C16_UnknownKindRunsNoEvent ==
    \A w \in Workers :
        LET events == Elems(heap, tr[w].scenario.Event)
        IN (/\ pc[w] \in {"events_wait", "unwind", "ret"}
            /\ \E i \in 1..Len(events) :
                  events[i].Type \notin {"dummy", "pumba", "shell", "config",
                                         "copy", "collect"})
              => gh[w].ran = {}

(* the error of an event of an unknown kind has come back on the done     *)
(* channel like any event's error, and its two sibling events have run    *)
C16_UnknownKindReportedPerEvent ==
    \E w \in Workers :
        /\ pc[w] = "ret"
        /\ rr[w].Error = "event execution failed"
        /\ "invalid event type" \in Range(tr[w].done)
        /\ Cardinality(gh[w].ran) = 3

(***************************************************************************)
(* C17: when a scenario file of the batch is malformed, no task's runner   *)
(* is invoked and no network is deployed.                                  *)
(***************************************************************************)
C17_MalformedScenarioStartsNoTrial ==
    (\E i \in 1..Len(tasks) : ~ScenarioDoc(tasks[i].ScenarioPath).ok)
       => /\ \A i \in DOMAIN runCount : runCount[i] = 0
          /\ \A w \in Workers : ~gh[w].deployed

(* the runner has returned a load error for the malformed scenario file   *)
(* of one task, and the network of another task of the batch is deployed  *)
C17_DeployedBesideMalformedScenario ==
    \E i \in 1..Len(results), w \in Workers :
        /\ results[i].filled
        /\ ~ScenarioDoc(tasks[i].ScenarioPath).ok
        /\ results[i].Error = "load"
        /\ gh[w].deployed

(***************************************************************************)
(* C18: the event list a trial runs holds exactly one dummy event, and the *)
(* event phase of a trial does not end before the dummy event has run.     *)
(***************************************************************************)
C18_OneDummyEventThatRuns ==
    \A w \in Workers :
        LET events == Elems(heap, tr[w].scenario.Event)
            dummies == {i \in 1..Len(events) : events[i].Type = "dummy"}
        IN /\ pc[w] = "events_wait" => Cardinality(dummies) = 1
           /\ (/\ pc[w] \in {"unwind", "ret"}
               /\ rr[w].Error \in {"nil", "event execution failed"})
                 => (dummies # {} /\ dummies \subseteq gh[w].ran)

(* the event list of a running trial holds two dummy events: its own and  *)
(* the one another trial has appended to the same array                   *)
C18_TwoDummyEvents ==
    \E w \in Workers :
        LET events == Elems(heap, tr[w].scenario.Event)
        IN /\ pc[w] = "events_wait"
           /\ Cardinality({i \in 1..Len(events) : events[i].Type = "dummy"}) = 2

(***************************************************************************)
(* C19: a trial whose scenario file specifies no topology makes no deploy, *)
(* destroy, telemetry-setup or log-collection call, and when it returns    *)
(* without error every one of its events has run.                          *)
(***************************************************************************)
C19_NoTopologyTouchesNoNetwork ==
    \A w \in Workers :
        (cur[w] # 0 /\ FileData(Task(w).ScenarioPath).Topo = NoTopo)
           => /\ pc[w] \notin {"deploy", "deploy_lock", "deploy_run",
                               "tcpdump", "destroy_run"}
              /\ ~gh[w].deployed
              /\ gh[w].destroys = 0
              /\ gh[w].tcpdumps = 0
              /\ gh[w].collects = 0
              /\ (pc[w] = "ret" /\ rr[w].Error = "nil")
                    => gh[w].ran = 1..tr[w].scenario.Event.len

(* the network of a trial is deployed whose scenario file specifies no    *)
(* topology                                                               *)
C19_DeployedWithoutTopologyInFile ==
    \E w \in Workers :
        /\ cur[w] # 0
        /\ FileData(Task(w).ScenarioPath).Topo = NoTopo
        /\ gh[w].deployed

(***************************************************************************)
(* C20: a trial whose scenario file declares a host that is not a node of  *)
(* its device data makes no deploy call, runs no event, issues no destroy, *)
(* and returns the validation error.                                       *)
(***************************************************************************)
C20_AbsentHostFailsBeforeDeploy ==
    \A w \in Workers :
        LET file == IF cur[w] = 0 THEN FileData(PathA)
                    ELSE FileData(Task(w).ScenarioPath)
        IN (cur[w] # 0 /\ ~validateHosts(file.Hosts, file.Nodes))
              => /\ pc[w] \notin {"append", "deploy", "deploy_lock",
                                  "deploy_run", "tcpdump", "events",
                                  "events_wait", "destroy_run"}
                 /\ ~gh[w].deployed
                 /\ gh[w].destroys = 0
                 /\ gh[w].ran = {}
                 /\ pc[w] = "ret" => rr[w].Error \in {"mkdir", "validate"}

(* a trial whose scenario file declares a host that is no device has       *)
(* returned the validation error without a deploy call                     *)
C20_ValidationErrorReturned ==
    \E w \in Workers :
        /\ cur[w] # 0
        /\ ~validateHosts(FileData(Task(w).ScenarioPath).Hosts,
                          FileData(Task(w).ScenarioPath).Nodes)
        /\ pc[w] = "ret"
        /\ rr[w].Error = "validate"
        /\ ~gh[w].deployed

(***************************************************************************)
(* C21: when the subnet allocation of a trial fails, Deploy returns        *)
(* without taking networkOpMu and without an external call, the trial's    *)
(* result carries the allocation error, nothing is destroyed for it, and   *)
(* once the batch has returned every task has been run once.               *)
(***************************************************************************)
C21_AllocationFailureFailsOnlyItsTrial ==
    /\ [][\A w \in Workers :
             (/\ pc[w] = "deploy"
              /\ pc'[w] # "deploy"
              /\ \/ generateSubnet(LabName(w), DeviceCount(w)).err # "nil"
                 \/ generateIPv6Subnet(LabName(w)).err # "nil")
                => /\ rr'[w].Error = "allocate"
                   /\ pc'[w] = "unwind"
                   /\ networkOpMu' = networkOpMu
                   /\ inFlight' = inFlight]_vars
    /\ [](\A w \in Workers :
             rr[w].Error = "allocate"
                => /\ ~gh[w].deployed
                   /\ gh[w].destroys = 0
                   /\ networkOpMu # w
                   /\ w \notin inFlight
                   /\ pc[w] \in {"unwind", "ret"})
    /\ [](phase = "returned"
             => \A i \in 1..Len(tasks) :
                   runCount[i] = 1 /\ results[i].filled)

(* the batch has returned: the first task's result is the allocation      *)
(* error, and the second task has run after it and succeeded              *)
C21_TaskRunAfterAllocationFailure ==
    /\ phase = "returned"
    /\ parallel = 1
    /\ Len(results) = 2
    /\ results[1].Error = "allocate"
    /\ results[2].Error = "nil"
    /\ results[2].LogDir # <<>>

(***************************************************************************)
(* C22: the return of the deferred Destroy, failed or not, and every       *)
(* deferred call after it leave the result of the trial as RunWithResult   *)
(* has set it, the worker stores that result, and the batch goes on: a     *)
(* trial whose events succeeded is stored without error, and every task    *)
(* has a result when the batch returns.                                    *)
(***************************************************************************)
C22_DestroyFailureOnlyLogged ==
    /\ [][\A w \in Workers :
             (pc[w] \in {"destroy_run", "unwind"} /\ pc'[w] # "idle")
                => rr'[w] = rr[w]]_vars
    /\ [][\A w \in Workers :
             (pc[w] = "destroy_run" /\ pc'[w] # "destroy_run")
                => (pc'[w] = "unwind" /\ phase' = phase)]_vars
    /\ [][\A w \in Workers :
             (pc[w] = "ret" /\ pc'[w] = "idle")
                => results'[cur[w]].Error = rr[w].Error]_vars
    /\ [](phase = "returned"
             => \A i \in 1..Len(tasks) : results[i].filled)

(* the Destroy of the first of two trials has returned an error, after    *)
(* its events succeeded: the result to return has no error                *)
C22_DestroyFailedAfterEventsSucceeded ==
    \E w \in Workers :
        /\ pc[w] = "unwind"
        /\ cur[w] = 1
        /\ Len(tasks) = 2
        /\ gh[w].deployed
        /\ tr[w].destroyErr
        /\ tr[w].done # <<>>
        /\ rr[w].Error = "nil"

(***************************************************************************)
(* C23: the tasks generated from a plan are, entry after entry of the      *)
(* expanded plan, the r runs of the entry's file in order, run j named     *)
(* {file name without directory and extension}_00j; their number is the    *)
(* sum of the repeat counts.                                               *)
(***************************************************************************)
C23_TasksPerFileAndRepeat ==
    (phase \notin {"plan", "failed"})
       => /\ Len(tasks) = SumRepeat(plan)
          /\ \A k \in 1..Len(plan) : \A j \in 1..plan[k].Repeat :
                tasks[SumRepeat(SubSeq(plan, 1, k - 1)) + j] =
                   [ScenarioPath |-> plan[k].Pattern,
                    RunID |-> <<plan[k].Pattern[3], "_", "0", "0",
                                DigitChars[j + 1]>>,
                    YAML |-> plan[k].YAML]

(* a plan of one file with repeat 2 and another with repeat 1: the tasks  *)
(* are a_001, a_002 and b_001                                             *)
C23_TwoRunsThenOneRun ==
    /\ phase = "new"
    /\ Len(plan) = 2
    /\ Len(tasks) = 3
    /\ tasks[1].RunID = <<"a", "_", "0", "0", "1">>
    /\ tasks[2].RunID = <<"a", "_", "0", "0", "2">>
    /\ tasks[3].RunID = <<"b", "_", "0", "0", "1">>

(***************************************************************************)
(* C24: for a plan file that parses, with entries whose patterns are       *)
(* well-formed: when the first entry without a matched file that holds one *)
(* of the characters *, ? and [ comes before any malformed pattern, the    *)
(* expansion fails with "no files match pattern"; when there is no such    *)
(* entry, the expanded plan holds, entry after entry, the entry itself     *)
(* when no file matches, and else one entry per matched file with the      *)
(* entry's repeat count and format flag.                                   *)
(***************************************************************************)
C24_ExpansionOfWellFormedPatterns ==
    LET S == planFile.Scenarios
        meta(k) == \E i \in 1..Len(S[k].Pattern) :
                      S[k].Pattern[i] \in {"*", "?", "["}
        bad(k) == Glob(S[k].Pattern).err # "nil"
        files(k) == Glob(S[k].Pattern).matches
        unmatched(k) == ~bad(k) /\ files(k) = <<>> /\ meta(k)
        repeat(k) == IF S[k].Repeat < 1 THEN 1 ELSE S[k].Repeat
        entries(k) ==
            IF files(k) = <<>>
            THEN <<[Pattern |-> S[k].Pattern, Repeat |-> repeat(k),
                    YAML |-> S[k].YAML]>>
            ELSE [m \in 1..Len(files(k)) |->
                    [Pattern |-> files(k)[m], Repeat |-> repeat(k),
                     YAML |-> S[k].YAML]]
    IN (phase \in {"new", "failed"} /\ planFile.ok /\ S # <<>>)
          => /\ \A k \in 1..Len(S) :
                   (unmatched(k) /\ \A j \in 1..(k - 1) : ~bad(j))
                      => batchErr = "no files match pattern"
             /\ (\A k \in 1..Len(S) : ~bad(k) /\ ~unmatched(k))
                   => /\ batchErr = "nil"
                      /\ plan = FlattenSeq([k \in 1..Len(S) |-> entries(k)])

(* a plan of a class pattern that matches two files, with repeat 2 and    *)
(* the YAML flag, has been expanded to two entries with both: the second  *)
(* entry of the plan, a file that does not exist, is kept                  *)
C24_ExpandedClassAndLiteral ==
    /\ phase = "new"
    /\ Len(planFile.Scenarios) = 2
    /\ planFile.Scenarios[1].Pattern[1] = "["
    /\ planFile.Scenarios[1].YAML
    /\ Len(plan) = 3
    /\ plan[2].Pattern = <<"t", "/", "a", ".", "j", "s", "o", "n">>
    /\ plan[2].YAML
    /\ plan[3].Pattern = <<"s", "/", "x", ".", "j", "s", "o", "n">>

(* C24 as stated, for any pattern: when the first entry with no matched   *)
(* file and one of the characters *, ? and [ is reached, the expansion    *)
(* fails with "no files match pattern"                                     *)
C24_AnyPatternNoFilesMatch ==
    LET S == planFile.Scenarios
        unmatched(k) ==
            /\ Glob(S[k].Pattern).matches = <<>>
            /\ \E i \in 1..Len(S[k].Pattern) :
                  S[k].Pattern[i] \in {"*", "?", "["}
    IN (phase \in {"new", "failed"} /\ planFile.ok /\ S # <<>>)
          => \A k \in 1..Len(S) :
                (unmatched(k) /\ \A j \in 1..(k - 1) : ~unmatched(j))
                   => batchErr = "no files match pattern"

(***************************************************************************)
(* C25: once the command has returned, the summary's total is the number   *)
(* of results, its failed count the number of results with an error and    *)
(* its succeeded count the number of results without one, so that total =  *)
(* succeeded + failed; and the command has returned an error exactly when  *)
(* the failed count is above zero.                                         *)
(***************************************************************************)
C25_SummaryCountsAndExitCode ==
    phase = "done" =>
       LET failing == {i \in 1..Len(results) : results[i].Error # "nil"}
       IN /\ summary.total = Len(results)
          /\ summary.failed = Cardinality(failing)
          /\ summary.succeeded = Len(results) - Cardinality(failing)
          /\ summary.total = summary.succeeded + summary.failed
          /\ (batchErr # "nil") <=> (summary.failed > 0)

(* two successes and one failure: Total 3, Succeeded 2, Failed 1, an error *)
C25_TwoSucceededOneFailed ==
    /\ phase = "done"
    /\ Len(results) = 3
    /\ Cardinality({i \in 1..3 : results[i].Error # "nil"}) = 1
    /\ summary.total = 3 /\ summary.succeeded = 2 /\ summary.failed = 1
    /\ batchErr = "tasks failed"

(***************************************************************************)
(* C26: once the command has returned, the summary on stdout and the       *)
(* summary in the execution log both hold, for every task whose result has *)
(* an error, a line with its RunID followed by a line with its log         *)
(* directory.                                                              *)
(***************************************************************************)
C26_FailedTaskListedWithLogDir ==
    phase = "done" =>
       \A i \in 1..Len(results) :
          results[i].Error # "nil" =>
             \A out \in {summary.stdout, summary.log} :
                \E j \in 1..(Len(out) - 1) :
                   /\ "RunID" \in DOMAIN out[j]
                   /\ out[j].RunID = tasks[i].RunID
                   /\ "Log" \in DOMAIN out[j + 1]
                   /\ out[j + 1].Log = <<"log", tasks[i].RunID, "control.log">>

(* a task that failed while its scenario was loaded is listed by its RunID *)
(* alone, in both summaries                                                *)
C26_LoadFailureListedWithoutLogDir ==
    /\ phase = "done"
    /\ Len(results) = 1
    /\ results[1].Error = "load"
    /\ summary.stdout = <<[RunID |-> tasks[1].RunID, Error |-> "load"]>>
    /\ summary.log = summary.stdout

(***************************************************************************)
(* C27: for every device count n from 0 to 65533, the prefix p that        *)
(* calculateSubnetSize returns has 2^(32-p) - 2 >= n + 1 usable addresses, *)
(* and no longer prefix up to /30 has that many: p is the smallest subnet  *)
(* of [16,30] that holds the devices and the gateway.                      *)
(***************************************************************************)
C27_SmallestSubnetUpTo65533 ==
    (calc.out # <<>> /\ calc.n <= 65533) =>
       \A k \in 1..2 :
          LET p == calc.out[k].size[1]
          IN /\ p \in 16..30
             /\ Pow2(32 - p) - 2 >= calc.n + 1
             /\ \A q \in (p + 1)..30 : Pow2(32 - q) - 2 < calc.n + 1

(* 254 devices need 255 addresses: /24 has 254, /23 has 510 *)
C27_SizeFor254Devices ==
    /\ calc.out # <<>>
    /\ calc.n = 254
    /\ calc.out[1].size[1] = 23

(* C27 as stated: the same for every device count n >= 0 *)
C27_SmallestSubnetEveryCount ==
    calc.out # <<>> =>
       \A k \in 1..2 :
          LET p == calc.out[k].size[1]
          IN /\ p \in 16..30
             /\ Pow2(32 - p) - 2 >= calc.n + 1
             /\ \A q \in (p + 1)..30 : Pow2(32 - q) - 2 < calc.n + 1

(***************************************************************************)
(* C28: calculateSubnetSize returns the longest prefix p of [16,30] whose  *)
(* usable address count 2^(32-p) - 2 is at least n + 1, which is the first *)
(* one met from 30 down to 16; it returns 16 and 65534 when no prefix of   *)
(* the range has that many; the second value is 2^(32-p) - 2 in all cases. *)
(***************************************************************************)
C28_FirstFittingPrefixOrSlash16 ==
    calc.out # <<>> =>
       \A k \in 1..2 :
          LET p == calc.out[k].size[1]
              usable == calc.out[k].size[2]
              fitting == {q \in 16..30 : Pow2(32 - q) - 2 >= calc.n + 1}
          IN /\ usable = Pow2(32 - p) - 2
             /\ fitting # {} => p \in fitting /\ \A q \in fitting : q <= p
             /\ fitting = {} => p = 16 /\ usable = 65534

(* 70000 devices: no prefix of the range suffices, /16 is returned *)
C28_FallbackForTooManyDevices ==
    /\ calc.out # <<>>
    /\ calc.n = 70000
    /\ calc.out[1].size = <<16, 65534>>

(***************************************************************************)
(* C29: generateIPv6Subnet fails exactly when the lab index of the name    *)
(* exceeds 65535; otherwise the fourth group of the subnet it returns is   *)
(* one to four lowercase hexadecimal digits, a value of the 16-bit field.  *)
(***************************************************************************)
C29_FourthGroupFitsSixteenBits ==
    calc.out # <<>> =>
       \A k \in 1..2 :
          LET v6 == calc.out[k].v6
          IN /\ (v6.err # "nil") <=> (calc.out[k].index > 65535)
             /\ v6.err = "nil" =>
                   /\ Len(v6.group4) \in 1..4
                   /\ \A i \in 1..Len(v6.group4) :
                         v6.group4[i] \in Range(HexChars)

(* the lab name a_-1 has the index -1 and the subnet 3fff:172:20:-1::/64 *)
C29_NegativeIndexFormatted ==
    /\ calc.out # <<>>
    /\ calc.labs[1] = <<"a", "_", "-", "1">>
    /\ calc.out[1].v6 = [err |-> "nil", group4 |-> <<"-", "1">>]

(***************************************************************************)
(* C30: extractLabIndex returns the integer written after the last         *)
(* underscore of the lab name, and 0 when the name has no underscore, has  *)
(* nothing after the last underscore, or the text after it is not a        *)
(* number (decimal digits, with or without a sign in front).               *)
(***************************************************************************)
C30_IndexIsNumberAfterLastUnderscore ==
    calc.out # <<>> =>
       \A k \in 1..2 :
          LET name == calc.labs[k]
              under == {i \in 1..Len(name) : name[i] = "_"}
              last == CHOOSE i \in under : \A j \in under : j <= i
              suffix == IF under = {} THEN <<>>
                        ELSE SubSeq(name, last + 1, Len(name))
              signed == suffix # <<>> /\ Head(suffix) \in {"-", "+"}
              digits == IF signed THEN Tail(suffix) ELSE suffix
              isNumber == digits # <<>>
                          /\ \A i \in 1..Len(digits) : IsDigit(digits[i])
              value == IF suffix # <<>> /\ Head(suffix) = "-"
                       THEN 0 - ScanDigits(digits, 0)
                       ELSE ScanDigits(digits, 0)
          IN calc.out[k].index = (IF isNumber THEN value ELSE 0)

(* the text 1x after the underscore is not a number, and the index is 1 *)
C30_DigitsThenLetter ==
    /\ calc.out # <<>>
    /\ calc.labs[1] = <<"a", "_", "1", "x">>
    /\ calc.out[1].index = 1

(* an index read from a zero-padded number, and the zero of a name with    *)
(* letters after the underscore                                            *)
C30_PaddedNumberAndLetters ==
    /\ calc.out # <<>>
    /\ calc.labs = <<<<"a", "_", "0", "0", "2">>, <<"a", "_", "x", "1">>>>
    /\ calc.out[1].index = 2
    /\ calc.out[2].index = 0

(***************************************************************************)
(* C31: when executeEvents returns after the receive loop, it returns nil  *)
(* if every value received from the handlers was nil, and otherwise the    *)
(* error received last among the errors of the failing events.             *)
(***************************************************************************)
C31_ReturnsLastReceivedError ==
    [][\A w \in Workers :
          (pc[w] = "events_wait" /\ pc'[w] # "events_wait") =>
             LET d == tr[w].done
                 errs == {j \in 1..Len(d) : d[j] # "nil"}
             IN /\ Len(d) = tr[w].scenario.Event.len
                /\ errs = {} => tr'[w].eventsErr = "nil"
                /\ errs # {} =>
                      \E j \in errs : /\ \A k \in errs : k <= j
                                      /\ tr'[w].eventsErr = d[j]]_vars

(* the config event failed first and the collect event after it: the       *)
(* error of the collect event is returned                                  *)
C31_ReturnedSecondOfTwoErrors ==
    \E w \in Workers :
        /\ pc[w] \in {"unwind", "ret"}
        /\ \E j, k \in 1..Len(tr[w].done) :
              j < k /\ tr[w].done[j] = "config" /\ tr[w].done[k] = "collect"
        /\ tr[w].eventsErr = "collect"

(* C31 as stated, for every return of executeEvents: nil exactly when no   *)
(* handler returned an error, otherwise the error of a failing event       *)
C31_EveryReturnIsAHandlersError ==
    [][\A w \in Workers :
          (pc[w] \in {"events", "events_wait"}
              /\ pc'[w] \notin {"events", "events_wait"}) =>
             LET d == tr'[w].done
                 errs == {j \in 1..Len(d) : d[j] # "nil"}
             IN /\ (tr'[w].eventsErr = "nil") <=> (errs = {})
                /\ errs # {} =>
                      \E j \in errs : /\ \A k \in errs : k <= j
                                      /\ tr'[w].eventsErr = d[j]]_vars

(***************************************************************************)
(* C32: a trial holds networkOpMu only while its external deploy or        *)
(* destroy call is running: not while it computes its subnets, sets up     *)
(* telemetry, executes events or collects logs.                            *)
(***************************************************************************)
C32_LockHeldOnlyDuringExternalCall ==
    \A w \in Workers :
        networkOpMu = w => /\ pc[w] \in {"deploy_run", "destroy_run"}
                           /\ w \in inFlight

(* one trial waits for its events while the external call of another       *)
(* trial is running under the lock                                         *)
C32_EventsBesideExternalCall ==
    \E w \in Workers, v \in Workers :
        /\ w # v
        /\ networkOpMu = w /\ pc[w] \in {"deploy_run", "destroy_run"}
        /\ pc[v] = "events_wait" /\ gh[v].deployed /\ tr[v].pending # {}

(* a Deploy or Destroy call of the worker has begun and not yet returned *)
InNetworkCall(w) ==
    \/ pc[w] \in {"deploy_lock", "deploy_run", "destroy_run"}
    \/ pc[w] = "unwind" /\ defers[w] # <<>> /\ Top(defers[w]) = "destroy"

(***************************************************************************)
(* C33: networkOpMu is free again in the state that follows the return of  *)
(* an external deploy or destroy call, whether the call succeeded or       *)
(* failed; and every Deploy or Destroy call that has begun returns.        *)
(***************************************************************************)
C33_UnlockedOnReturnAndCallsComplete ==
    /\ [][\A w \in Workers :
             (pc[w] \in {"deploy_run", "destroy_run"} /\ pc'[w] # pc[w])
                => networkOpMu' = 0]_vars
    /\ \A w \in Workers : InNetworkCall(w) ~> ~InNetworkCall(w)

(* a trial whose deploy call has failed has returned its error while       *)
(* another trial waits for the lock                                        *)
C33_WaitingBehindFailedCall ==
    \E w \in Workers, v \in Workers :
        /\ w # v
        /\ pc[w] = "ret" /\ rr[w].Error = "deploy"
        /\ pc[v] = "deploy_lock"
        /\ networkOpMu = 0

(***************************************************************************)
(* C34: when a trial runs a pumba event, the command is applied to the     *)
(* containers of the trial's own lab, named after its RunID, and is built  *)
(* from the trial's own event at that index.  (A RunID is a sequence of    *)
(* characters and the name GetLabName returns is one string: the two are   *)
(* the same name only if the RunID is that one string.)                    *)
(***************************************************************************)
C34_PumbaOnOwnLabAndEvent ==
    [][\A w \in Workers :
          \A i \in gh'[w].ran \ gh[w].ran :
             LET own == heap[tr[w].scenario.Event.arr][i]
             IN own.Type = "pumba" =>
                   /\ <<ExecPumbaCommand(i).lab>> = LabName(w)
                   /\ ExecPumbaCommand(i).event = own]_vars

(* the pumba event of the only trial, a_001, has run while the lab name of *)
(* the process was that of the topology                                    *)
C34_PumbaRanUnderTopologyName ==
    \E w \in Workers :
        /\ pc[w] = "events_wait"
        /\ LabName(w) = <<"a", "_", "0", "0", "1">>
        /\ \E i \in gh[w].ran : heap[tr[w].scenario.Event.arr][i].Type = "pumba"
        /\ GetLabName = "la"
        /\ Len(tasks) = 1

(***************************************************************************)
(* C35: in a trial whose deploy and telemetry setup succeeded, collectLogs *)
(* has run to its end, once, when the external destroy call of the trial   *)
(* begins, and does not run again after it.                                *)
(***************************************************************************)
C35_LogsCollectedBeforeDestroy ==
    \A w \in Workers :
        /\ (pc[w] = "destroy_run" /\ rr[w].Error # "tcpdump")
              => gh[w].collects = 1
        /\ (gh[w].destroys > 0 /\ rr[w].Error # "tcpdump")
              => gh[w].collects = 1

(* the external destroy call runs after the events have succeeded and the  *)
(* logs have been collected                                                *)
C35_DestroyRunningAfterCollection ==
    \E w \in Workers :
        /\ pc[w] = "destroy_run"
        /\ w \in inFlight
        /\ rr[w].Error = "nil"
        /\ gh[w].ran # {}
        /\ gh[w].collects = 1
        /\ gh[w].destroys = 0

(***************************************************************************)
(* C36: a trial whose Deploy has failed, in the subnet allocation or in    *)
(* the external command, returns the deploy error at once: it sets up no   *)
(* telemetry, runs no event, registers and runs neither Destroy nor        *)
(* collectLogs, and the error is the one stored in its result.             *)
(***************************************************************************)
C36_FailedDeployEndsTheTrial ==
    /\ [][\A w \in Workers :
             /\ (pc[w] = "deploy" /\ pc'[w] \notin {"deploy", "deploy_lock"})
                   => rr'[w].Error = "allocate" /\ pc'[w] = "unwind"
             /\ (pc[w] = "deploy_run" /\ pc'[w] # "deploy_run"
                                      /\ ~gh'[w].deployed)
                   => rr'[w].Error = "deploy" /\ pc'[w] = "unwind"
             /\ (pc[w] = "ret" /\ pc'[w] # "ret"
                               /\ rr[w].Error \in {"allocate", "deploy"})
                   => results'[cur[w]].Error = rr[w].Error]_vars
    /\ [](\A w \in Workers :
             rr[w].Error \in {"allocate", "deploy"}
                => /\ pc[w] \in {"unwind", "ret"}
                   /\ ~gh[w].deployed
                   /\ gh[w].tcpdumps = 0 /\ gh[w].ran = {}
                   /\ gh[w].destroys = 0 /\ gh[w].collects = 0
                   /\ Range(defers[w]) \cap {"destroy", "collectLogs"} = {})

(* the result of the first task holds the error of the external deploy     *)
(* command and that of the second the allocation error                     *)
C36_BothDeployErrorsStored ==
    /\ phase = "returned"
    /\ Len(results) = 2
    /\ results[1].Error = "deploy"
    /\ results[2].Error = "allocate"
    /\ \A w \in Workers : gh[w].destroys = 0 /\ gh[w].collects = 0

(***************************************************************************)
(* C37: no trial holds scenarioLoadMu and networkOpMu at the same time; a  *)
(* trial that holds scenarioLoadMu is inside loadScenarioAndDevices and    *)
(* one that holds networkOpMu is inside its external call, so neither      *)
(* waits for the other lock.                                               *)
(***************************************************************************)
C37_NeverBothLocks ==
    \A w \in Workers :
        /\ ~(scenarioLoadMu = w /\ networkOpMu = w)
        /\ scenarioLoadMu = w => pc[w] = "loading"
        /\ networkOpMu = w => pc[w] \in {"deploy_run", "destroy_run"}

(* one trial loads its scenario under scenarioLoadMu while another trial   *)
(* holds networkOpMu for its external deploy call                          *)
C37_EachLockHeldByAnotherTrial ==
    \E w \in Workers, v \in Workers :
        /\ w # v
        /\ scenarioLoadMu = w /\ pc[w] = "loading"
        /\ networkOpMu = v /\ pc[v] = "deploy_run"

(***************************************************************************)
(* C38: from the moment a trial has installed its control.log as the log   *)
(* output until its own deferred restore runs, the output of the logger is *)
(* that trial's control.log: the log lines of the trial go to its own file *)
(* and no other trial redirects or resets the output in between.           *)
(***************************************************************************)
C38_OutputIsOwnControlLog ==
    \A w \in Workers :
        (Active(w) /\ "restoreOutput" \in Range(defers[w]))
           => logrusOut = <<"log", LabName(w), "control.log">>

(* a trial waits for its events while the output of the logger is the      *)
(* control.log of the other trial                                          *)
C38_EventsLoggedToOtherTrial ==
    \E w \in Workers, v \in Workers :
        /\ w # v
        /\ pc[w] = "events_wait" /\ tr[w].pending # {}
        /\ Active(v) /\ LabName(v) # LabName(w)
        /\ logrusOut = <<"log", LabName(v), "control.log">>

(***************************************************************************)
(* C39: if a step is taken as long as one is possible (every load, every   *)
(* external command and every event handler returns), ExecuteWithProgress  *)
(* returns, for task lists of every length from zero and pools of every    *)
(* size, and when it has returned there is one filled result per task.     *)
(***************************************************************************)
C39_TerminatesWithEveryResult ==
    /\ <>(phase = "returned")
    /\ [](phase = "returned"
             => /\ Len(results) = Len(tasks)
                /\ \A i \in 1..Len(tasks) : results[i].filled)

(* returned for a list of one task and a pool of two workers *)
C39_ReturnedForListShorterThanPool ==
    /\ phase = "returned"
    /\ Len(tasks) = 1 /\ parallel = 2
    /\ results[1].filled
    /\ \A w \in Workers : w <= 2 => pc[w] = "exit"

(* returned for the empty list: no result *)
C39_ReturnedForEmptyList ==
    /\ phase = "returned"
    /\ tasks = <<>> /\ results = <<>>

(***************************************************************************)
(* C40: log collection of a trial copies into the trial's log directory    *)
(* exactly the log files under the topology directory whose size changed   *)
(* during that trial's run (between trial start and collection), and then  *)
(* truncates them: once collectLogs has run with its copies succeeding,    *)
(* the topology logs are copied and truncated if and only if they grew     *)
(* during the run.                                                         *)
(***************************************************************************)
C40_CopiesExactlyTheLogsChangedDuringRun ==
    \A w \in Workers :
       (/\ Active(w)
        /\ gh[w].collects = 1
        /\ \A k \in 1..Len(Elems(heap, tr[w].scenario.Hosts)) :
              (tr[w].logDir \o <<Elems(heap, tr[w].scenario.Hosts)[k],
                                 "tcpdump">>) \in gh[w].wrote)
       => LET topoLogs == findTopoPath(tr[w].scenario.Topo) \o <<"*.log">>
              copied == (tr[w].logDir \o <<"*.log">>) \in gh[w].wrote
              truncated == topoLogs \in gh[w].wrote
              grew == findTopoPath(tr[w].scenario.Topo) \in LoggingTopos
          IN /\ copied <=> grew
             /\ truncated <=> grew

(* collection ran, every tcpdump copy succeeded, the topology logs grew    *)
(* during the run, and nothing was copied or truncated                     *)
C40_GrownLogsLeftBehind ==
    \E w \in Workers :
       /\ Active(w)
       /\ gh[w].collects = 1
       /\ findTopoPath(tr[w].scenario.Topo) \in LoggingTopos
       /\ Len(Elems(heap, tr[w].scenario.Hosts)) > 0
       /\ \A k \in 1..Len(Elems(heap, tr[w].scenario.Hosts)) :
             (tr[w].logDir \o <<Elems(heap, tr[w].scenario.Hosts)[k],
                                "tcpdump">>) \in gh[w].wrote
       /\ (tr[w].logDir \o <<"*.log">>) \notin gh[w].wrote
       /\ (findTopoPath(tr[w].scenario.Topo) \o <<"*.log">>) \notin gh[w].wrote

====
